---- MODULE Spec2Model ----
(***************************************************************************)
(* Model of backend/main.py of the aiposter repository: the text layout    *)
(* engine (measure_text, wrap_text_lines, draw_layout_text).               *)
(*                                                                         *)
(* Python's float is IEEE-754 binary64.  The layout code compares and      *)
(* accumulates floats (cursor_y += line_height, fontSize * 1.2, ...), so   *)
(* the arithmetic is modelled bit-exactly: a float is a sign, a 53-bit     *)
(* mantissa and an exponent, every operation rounds to nearest, ties to    *)
(* even.  Mantissas exceed TLC's integers and are kept as sequences of     *)
(* limbs (little-endian, base 2^15).                                       *)
(***************************************************************************)
EXTENDS Integers, Sequences, FiniteSets, TLC

\* ------------------------------------------------------------------------
\* Natural numbers of arbitrary size (limb sequences, no leading zero limb)
\* ------------------------------------------------------------------------
LimbBits == 5 * 3
LimbBase == 2^LimbBits

Limb(a, i) == IF i <= Len(a) THEN a[i] ELSE 0

RECURSIVE BTrim(_)
BTrim(a) ==
  IF Len(a) > 0 /\ a[Len(a)] = 0 THEN BTrim(SubSeq(a, 1, Len(a) - 1)) ELSE a

RECURSIVE BFromNat(_)
BFromNat(n) == IF n = 0 THEN <<>> ELSE <<n % LimbBase>> \o BFromNat(n \div LimbBase)

RECURSIVE BAddAt(_, _, _, _)
BAddAt(a, b, i, c) ==
  IF i > Len(a) /\ i > Len(b)
  THEN (IF c = 0 THEN <<>> ELSE <<c>>)
  ELSE LET s == Limb(a, i) + Limb(b, i) + c
       IN  <<s % LimbBase>> \o BAddAt(a, b, i + 1, s \div LimbBase)

BAdd(a, b) == BAddAt(a, b, 1, 0)

RECURSIVE BSubAt(_, _, _, _)
BSubAt(a, b, i, borrow) ==
  IF i > Len(a)
  THEN <<>>
  ELSE LET d == Limb(a, i) - Limb(b, i) - borrow
       IN  IF d < 0
           THEN <<d + LimbBase>> \o BSubAt(a, b, i + 1, 1)
           ELSE <<d>> \o BSubAt(a, b, i + 1, 0)

\* a - b for a >= b
BSub(a, b) == BTrim(BSubAt(a, b, 1, 0))

RECURSIVE BCmpAt(_, _, _)
BCmpAt(a, b, i) ==
  IF i = 0 THEN 0
  ELSE IF a[i] < b[i] THEN -1
  ELSE IF a[i] > b[i] THEN 1
  ELSE BCmpAt(a, b, i - 1)

\* -1, 0, 1 as a < b, a = b, a > b
BCmp(a, b) ==
  IF Len(a) < Len(b) THEN -1
  ELSE IF Len(a) > Len(b) THEN 1
  ELSE BCmpAt(a, b, Len(a))

RECURSIVE BMulSmallAt(_, _, _, _)
BMulSmallAt(a, m, i, c) ==
  IF i > Len(a)
  THEN (IF c = 0 THEN <<>> ELSE <<c>>)
  ELSE LET p == a[i] * m + c
       IN  <<p % LimbBase>> \o BMulSmallAt(a, m, i + 1, p \div LimbBase)

\* a * m for 0 <= m < LimbBase
BMulSmall(a, m) == IF m = 0 THEN <<>> ELSE BMulSmallAt(a, m, 1, 0)

ZeroLimbs(n) == [i \in 1..n |-> 0]

RECURSIVE BMulAt(_, _, _)
BMulAt(a, b, i) ==
  IF i > Len(b)
  THEN <<>>
  ELSE BAdd(IF b[i] = 0 THEN <<>> ELSE ZeroLimbs(i - 1) \o BMulSmall(a, b[i]),
            BMulAt(a, b, i + 1))

BMul(a, b) == IF a = <<>> \/ b = <<>> THEN <<>> ELSE BMulAt(a, b, 1)

\* a * 2^k
BShl(a, k) ==
  IF a = <<>> THEN <<>>
  ELSE ZeroLimbs(k \div LimbBits) \o BMulSmall(a, 2^(k % LimbBits))

\* floor(a / 2^k)
BShr(a, k) ==
  LET q == k \div LimbBits
      r == k % LimbBits
      n == Len(a) - q
  IN  IF n <= 0 THEN <<>>
      ELSE BTrim([i \in 1..n |->
                    (a[i + q] \div 2^r)
                    + (Limb(a, i + q + 1) % 2^r) * 2^(LimbBits - r)])

RECURSIVE NatBitLen(_)
NatBitLen(n) == IF n = 0 THEN 0 ELSE 1 + NatBitLen(n \div 2)

BBitLen(a) ==
  IF a = <<>> THEN 0 ELSE (Len(a) - 1) * LimbBits + NatBitLen(a[Len(a)])

\* bit i (bit 0 is the lowest) of a
BBit(a, i) == (Limb(a, i \div LimbBits + 1) \div 2^(i % LimbBits)) % 2

\* some bit below bit k of a is set
BLowNonzero(a, k) ==
  \/ \E j \in 1..(k \div LimbBits) : Limb(a, j) # 0
  \/ Limb(a, k \div LimbBits + 1) % 2^(k % LimbBits) # 0

RECURSIVE BDivSmallAt(_, _, _, _)
BDivSmallAt(a, d, i, rem) ==
  IF i = 0
  THEN [quo |-> <<>>, rem |-> rem]
  ELSE LET cur  == rem * LimbBase + a[i]
           rest == BDivSmallAt(a, d, i - 1, cur % d)
       IN  [quo |-> rest.quo \o <<cur \div d>>, rem |-> rest.rem]

\* quotient and remainder of a / d for 0 < d < LimbBase
BDivSmall(a, d) ==
  LET r == BDivSmallAt(a, d, Len(a), 0)
  IN  [quo |-> BTrim(r.quo), rem |-> r.rem]

\* ------------------------------------------------------------------------
\* IEEE-754 binary64 (Python float): (-1)^neg * man * 2^exp, man < 2^53
\* ------------------------------------------------------------------------
MantBits == 53

FZero == [neg |-> FALSE, man |-> <<>>, exp |-> 0]

\* The float nearest to (-1)^neg * m * 2^e (plus a non-zero tail below the
\* last bit of m when sticky), round-half-to-even.
FRound(neg, m, e, sticky) ==
  LET len == BBitLen(m)
  IN  IF len = 0 THEN FZero
      ELSE IF len <= MantBits
      THEN [neg |-> neg, man |-> BShl(m, MantBits - len), exp |-> e - (MantBits - len)]
      ELSE LET k    == len - MantBits
               q    == BShr(m, k)
               half == BBit(m, k - 1) = 1
               tail == sticky \/ BLowNonzero(m, k - 1)
               up   == half /\ (tail \/ BBit(q, 0) = 1)
               q1   == IF up THEN BAdd(q, <<1>>) ELSE q
           IN  IF BBitLen(q1) > MantBits
               THEN [neg |-> neg, man |-> BShr(q1, 1), exp |-> e + k + 1]
               ELSE [neg |-> neg, man |-> q1, exp |-> e + k]

\* float(n) for an int n
FromInt(n) == FRound(n < 0, BFromNat(IF n < 0 THEN -n ELSE n), 0, FALSE)

\* The float a decimal literal n/d denotes (d a power of ten below 2^15):
\* the correctly rounded quotient.
FromRatio(n, d) ==
  LET dv == BDivSmall(BShl(BFromNat(IF n < 0 THEN -n ELSE n), 90), d)
  IN  FRound(n < 0, dv.quo, -90, dv.rem # 0)

FNeg(a) == IF a.man = <<>> THEN a ELSE [a EXCEPT !.neg = ~a.neg]

\* a + b
FAdd(a, b) ==
  IF a.man = <<>> THEN b
  ELSE IF b.man = <<>> THEN a
  ELSE LET e  == IF a.exp < b.exp THEN a.exp ELSE b.exp
           ma == BShl(a.man, a.exp - e)
           mb == BShl(b.man, b.exp - e)
           c  == BCmp(ma, mb)
       IN  IF a.neg = b.neg THEN FRound(a.neg, BAdd(ma, mb), e, FALSE)
           ELSE IF c = 0 THEN FZero
           ELSE IF c > 0 THEN FRound(a.neg, BSub(ma, mb), e, FALSE)
           ELSE FRound(b.neg, BSub(mb, ma), e, FALSE)

\* a - b
FSub(a, b) == FAdd(a, FNeg(b))

\* a * b
FMul(a, b) ==
  IF a.man = <<>> \/ b.man = <<>> THEN FZero
  ELSE FRound(a.neg # b.neg, BMul(a.man, b.man), a.exp + b.exp, FALSE)

\* a / 2
FHalf(a) == IF a.man = <<>> THEN a ELSE [a EXCEPT !.exp = a.exp - 1]

\* -1, 0, 1 as a < b, a = b, a > b (mantissas are normalised to 53 bits)
FCmpMag(a, b) ==
  IF a.man = <<>> THEN (IF b.man = <<>> THEN 0 ELSE -1)
  ELSE IF b.man = <<>> THEN 1
  ELSE IF a.exp < b.exp THEN -1
  ELSE IF a.exp > b.exp THEN 1
  ELSE BCmp(a.man, b.man)

FCmp(a, b) ==
  IF a.neg /\ ~b.neg THEN -1
  ELSE IF ~a.neg /\ b.neg THEN 1
  ELSE IF a.neg THEN FCmpMag(b, a)
  ELSE FCmpMag(a, b)

FLe(a, b) == FCmp(a, b) <= 0
FGt(a, b) == FCmp(a, b) > 0

\* the int a limb sequence denotes (below 2^31)
RECURSIVE BToNat(_)
BToNat(a) == IF a = <<>> THEN 0 ELSE a[1] + LimbBase * BToNat(Tail(a))

\* int(a): the float cut towards zero (|a| < 2^31)
FInt(a) ==
  LET mag == IF a.exp >= 0 THEN BToNat(BShl(a.man, a.exp))
             ELSE BToNat(BShr(a.man, -a.exp))
  IN  IF a.neg THEN -mag ELSE mag

\* round(a): the int nearest to the float a >= 0, a tie to the even one
FNearest(a) ==
  IF a.exp >= 0 THEN FInt(a)
  ELSE LET k    == -a.exp
           q    == BToNat(BShr(a.man, k))
           half == BBit(a.man, k - 1) = 1
           tail == BLowNonzero(a.man, k - 1)
       IN  IF half /\ (tail \/ q % 2 = 1) THEN q + 1 ELSE q

\* ------------------------------------------------------------------------
\* Text, fonts and measure_text
\* ------------------------------------------------------------------------
\* A str is a sequence of characters.  "a" is a narrow letter, "b" a wide
\* one; " " and "\t" are whitespace inside a paragraph, "\n" separates the
\* paragraphs of a block.
Letters    == {"a", "b"}
Whitespace == {" ", "\t", "\n"}
ParaChars  == Letters \cup {" ", "\t"}

\* ch.isspace()
isspace(ch) == ch \in Whitespace

\* A loaded font (ImageFont.FreeTypeFont at one size): the advance of each
\* character in pixels and the kerning applied to adjacent pairs.  With
\* kerning the advance of a string is not the sum of its characters'.
NoKern == [p \in (Letters \cup Whitespace) \X (Letters \cup Whitespace) |-> 0]

MonoFont == [adv |-> [c \in Letters \cup Whitespace |-> 2], kern |-> NoKern]

PropFont ==
  [adv  |-> [c \in Letters \cup Whitespace |-> IF c = "b" THEN 3 ELSE 1],
   kern |-> NoKern]

KernFont ==
  [adv  |-> [c \in Letters \cup Whitespace |-> IF c = "b" THEN 3 ELSE 2],
   kern |-> [p \in (Letters \cup Whitespace) \X (Letters \cup Whitespace) |->
               IF p = <<"b", "a">> THEN -1 ELSE 0]]

Fonts == {MonoFont, PropFont, KernFont}

RECURSIVE AdvanceUnits(_, _, _)
AdvanceUnits(text, font, i) ==
  IF i > Len(text) THEN 0
  ELSE font.adv[text[i]]
       + (IF i > 1 THEN font.kern[<<text[i - 1], text[i]>>] ELSE 0)
       + AdvanceUnits(text, font, i + 1)

\* draw.textlength(text, font=font): a float
measure_text(text, font) == FromInt(AdvanceUnits(text, font, 1))

\* ------------------------------------------------------------------------
\* str.split(), str.strip(), str.split("\n")
\* ------------------------------------------------------------------------
RECURSIVE SplitAt(_, _, _, _)
SplitAt(text, i, words, cur) ==
  IF i > Len(text)
  THEN (IF cur = <<>> THEN words ELSE Append(words, cur))
  ELSE IF isspace(text[i])
  THEN SplitAt(text, i + 1, IF cur = <<>> THEN words ELSE Append(words, cur), <<>>)
  ELSE SplitAt(text, i + 1, words, Append(cur, text[i]))

\* text.split(): the maximal runs of non-whitespace characters
split(text) == SplitAt(text, 1, <<>>, <<>>)

RECURSIVE lstrip(_)
lstrip(s) == IF s # <<>> /\ isspace(s[1]) THEN lstrip(Tail(s)) ELSE s

RECURSIVE rstrip(_)
rstrip(s) ==
  IF s # <<>> /\ isspace(s[Len(s)]) THEN rstrip(SubSeq(s, 1, Len(s) - 1)) ELSE s

\* s.strip()
strip(s) == rstrip(lstrip(s))

RECURSIVE SplitLinesAt(_, _, _, _)
SplitLinesAt(text, i, parts, cur) ==
  IF i > Len(text) THEN Append(parts, cur)
  ELSE IF text[i] = "\n" THEN SplitLinesAt(text, i + 1, Append(parts, cur), <<>>)
  ELSE SplitLinesAt(text, i + 1, parts, Append(cur, text[i]))

\* text.split("\n"): always at least one part, parts may be empty
split_newline(text) == SplitLinesAt(text, 1, <<>>, <<>>)

\* ------------------------------------------------------------------------
\* wrap_text_lines
\* ------------------------------------------------------------------------
\* Mutant of CharLoop: the width test is strict (<), an exact fit is refused
RECURSIVE CharLoop_Strict(_, _, _, _, _, _)
CharLoop_Strict(text, i, lines, current, max_width, font) ==
  IF i > Len(text) THEN [lines |-> lines, current |-> current]
  ELSE LET ch   == text[i]
           test == Append(current, ch)
       IN  IF ~FLe(max_width, measure_text(test, font)) \/ current = <<>>
           THEN CharLoop_Strict(text, i + 1, lines, test, max_width, font)
           ELSE CharLoop_Strict(text, i + 1, Append(lines, current), <<ch>>,
                                max_width, font)

\* The character loop of a text without whitespace: for ch in text
RECURSIVE CharLoop(_, _, _, _, _, _)
CharLoop(text, i, lines, current, max_width, font) ==
  IF i > Len(text) THEN [lines |-> lines, current |-> current]
  ELSE LET ch   == text[i]
           test == Append(current, ch)
       IN  IF FLe(measure_text(test, font), max_width) \/ current = <<>>
           THEN CharLoop(text, i + 1, lines, test, max_width, font)
           ELSE CharLoop(text, i + 1, Append(lines, current), <<ch>>, max_width, font)

\* Mutant of ChunkLoop: a word wider than max_width is kept whole
ChunkLoop_NoSplit(word, i, lines, chunk, max_width, font) ==
  [lines |-> lines, current |-> word]

\* Mutant of ChunkLoop: the chunk that is full is not appended
RECURSIVE ChunkLoop_DropChunk(_, _, _, _, _, _)
ChunkLoop_DropChunk(word, i, lines, chunk, max_width, font) ==
  IF i > Len(word) THEN [lines |-> lines, current |-> chunk]
  ELSE LET ch         == word[i]
           test_chunk == Append(chunk, ch)
       IN  IF FLe(measure_text(test_chunk, font), max_width) \/ chunk = <<>>
           THEN ChunkLoop_DropChunk(word, i + 1, lines, test_chunk, max_width, font)
           ELSE ChunkLoop_DropChunk(word, i + 1, lines, <<ch>>, max_width, font)

\* The character loop over a word wider than max_width: for ch in word
RECURSIVE ChunkLoop(_, _, _, _, _, _)
ChunkLoop(word, i, lines, chunk, max_width, font) ==
  IF i > Len(word) THEN [lines |-> lines, current |-> chunk]
  ELSE LET ch         == word[i]
           test_chunk == Append(chunk, ch)
       IN  IF FLe(measure_text(test_chunk, font), max_width) \/ chunk = <<>>
           THEN ChunkLoop(word, i + 1, lines, test_chunk, max_width, font)
           ELSE ChunkLoop(word, i + 1, Append(lines, chunk), <<ch>>, max_width, font)

\* Mutant of WordLoop: the line that is full is not appended before the next
\* one is started
RECURSIVE WordLoop_NoClose(_, _, _, _, _, _)
WordLoop_NoClose(words, i, lines, current, max_width, font) ==
  IF i > Len(words) THEN [lines |-> lines, current |-> current]
  ELSE LET word == words[i]
           test == strip(current \o <<" ">> \o word)
       IN  IF FLe(measure_text(test, font), max_width)
           THEN WordLoop_NoClose(words, i + 1, lines, test, max_width, font)
           ELSE IF FLe(measure_text(word, font), max_width)
                THEN WordLoop_NoClose(words, i + 1, lines, word, max_width, font)
                ELSE LET r == ChunkLoop(word, 1, lines, <<>>, max_width, font)
                     IN  WordLoop_NoClose(words, i + 1, r.lines, r.current,
                                          max_width, font)

\* Mutant of WordLoop: the width test is strict (<), a line that the word
\* fills exactly is closed before it
RECURSIVE WordLoop_Strict(_, _, _, _, _, _)
WordLoop_Strict(words, i, lines, current, max_width, font) ==
  IF i > Len(words) THEN [lines |-> lines, current |-> current]
  ELSE LET word == words[i]
           test == strip(current \o <<" ">> \o word)
       IN  IF ~FLe(max_width, measure_text(test, font))
           THEN WordLoop_Strict(words, i + 1, lines, test, max_width, font)
           ELSE LET closed == IF current # <<>> THEN Append(lines, current) ELSE lines
                IN  IF FLe(measure_text(word, font), max_width)
                    THEN WordLoop_Strict(words, i + 1, closed, word, max_width, font)
                    ELSE LET r == ChunkLoop(word, 1, closed, <<>>, max_width, font)
                         IN  WordLoop_Strict(words, i + 1, r.lines, r.current,
                                             max_width, font)

\* The word loop: for word in words
RECURSIVE WordLoop(_, _, _, _, _, _)
WordLoop(words, i, lines, current, max_width, font) ==
  IF i > Len(words) THEN [lines |-> lines, current |-> current]
  ELSE LET word == words[i]
           test == strip(current \o <<" ">> \o word)
       IN  IF FLe(measure_text(test, font), max_width)
           THEN WordLoop(words, i + 1, lines, test, max_width, font)
           ELSE LET closed == IF current # <<>> THEN Append(lines, current) ELSE lines
                IN  IF FLe(measure_text(word, font), max_width)
                    THEN WordLoop(words, i + 1, closed, word, max_width, font)
                    ELSE LET r == ChunkLoop(word, 1, closed, <<>>, max_width, font)
                         IN  WordLoop(words, i + 1, r.lines, r.current, max_width, font)

\* Mutant of Flush: the trailing line is never appended
Flush_DropLast(r) == r.lines

\* Mutant of Flush: the trailing line is appended even when it is empty
Flush_Always(r) == Append(r.lines, r.current)

\* if current: lines.append(current); return lines
Flush(r) == IF r.current # <<>> THEN Append(r.lines, r.current) ELSE r.lines

\* Mutant of wrap_text_lines: a text of whitespace only gives one empty line
wrap_text_lines_Blank(text, max_width, font) ==
  IF text = <<>> \/ split(text) = <<>> THEN << <<>> >>
  ELSE IF ~ \E i \in 1..Len(text) : isspace(text[i])
  THEN Flush(CharLoop(text, 1, <<>>, <<>>, max_width, font))
  ELSE Flush(WordLoop(split(text), 1, <<>>, <<>>, max_width, font))

wrap_text_lines(text, max_width, font) ==
  IF text = <<>> THEN << <<>> >>
  ELSE IF ~ \E i \in 1..Len(text) : isspace(text[i])
  THEN Flush(CharLoop(text, 1, <<>>, <<>>, max_width, font))
  ELSE Flush(WordLoop(split(text), 1, <<>>, <<>>, max_width, font))

\* ------------------------------------------------------------------------
\* State
\* ------------------------------------------------------------------------
VARIABLES
  pc,                   \* where the running call stands
  font,                 \* the loaded font of the call
  text,                 \* wrap_text_lines: the paragraph passed
  max_width,            \* wrap_text_lines: the width passed (a float)
  result,               \* wrap_text_lines: the list returned
  image,                \* draw_layout_text: the canvas (width, height)
  block,                \* draw_layout_text: the TextBlockPayload
  respect_line_breaks,  \* draw_layout_text: the flag of the request
  line_height, x, y, w, h, align, paragraphs,  \* its locals, set on entry
  cursor_y,             \* the vertical cursor
  idx,                  \* the paragraph of the outer loop, counted from 1
  lines,                \* the lines of the running loop
  line_no,              \* the line of `for line in lines`, counted from 1
  drawn,                \* the calls of draw_line_with_style so far, in order
  canvas,               \* what was drawn on the image so far, in order
  request,              \* the payload of the running request
  block_no,             \* fonts_layout: the block of the loop, counted from 1
  loads,                \* load_font: the attempts to open the font so far
  laid,                 \* fonts_layout: the calls of draw_layout_text so far
  response,             \* what the request answered
  file_name,            \* resolve_font_path: the name passed
  resolved,             \* resolve_font_path: what it returned or raised
  users,                \* table users, in the order of creation
  refresh_tokens,       \* table refresh_tokens, in the order of creation
  clock,                \* the time: how many of the oldest tokens have expired
  reqs,                 \* the auth requests being served, and their answers
  accepted,             \* the tokens /auth/refresh has accepted, in order
  POLO_API_KEY,         \* the configured key of the upstream API
  ai_tasks,             \* table ai_tasks, in the order of creation
  runs,                 \* execute_ai_task: the run of each task
  chat                  \* ai_chat: the call being served

wrapVars   == <<text, max_width, result>>
inputVars  == <<font, image, block, respect_line_breaks>>
localVars  == <<line_height, x, y, w, h, align, paragraphs>>
loopVars   == <<cursor_y, idx, lines, line_no, drawn>>
requestVars == <<request, block_no, loads, laid, response>>
resolveVars == <<file_name, resolved>>
authVars    == <<users, refresh_tokens, clock, reqs, accepted>>
taskVars    == <<POLO_API_KEY, ai_tasks, runs, chat>>
serviceVars == <<resolveVars, authVars, taskVars>>
layoutVars == <<image, block, respect_line_breaks, line_height, x, y, w, h,
                align, paragraphs, cursor_y, idx, lines, line_no, drawn>>
vars == <<pc, font, text, max_width, result, image, block, respect_line_breaks,
          line_height, x, y, w, h, align, paragraphs, cursor_y, idx, lines,
          line_no, drawn, canvas, request, block_no, loads, laid,
          response, serviceVars>>

\* ------------------------------------------------------------------------
\* Bounds of the explored inputs
\* ------------------------------------------------------------------------
MaxLen   == 5    \* paragraphs of up to MaxLen characters, every combination
MaxRun   == 8    \* and runs of one letter of up to MaxRun characters
MaxWidth == 6    \* max_width from 0 to MaxWidth pixels, in half pixels

SeqsUpTo(S, n) == UNION {[1..k -> S] : k \in 0..n}

Texts == SeqsUpTo(ParaChars, MaxLen)
           \cup {[i \in 1..n |-> c] : n \in 1..MaxRun, c \in Letters}

Widths == {FromInt(k) : k \in 0..MaxWidth}
            \cup {FromRatio(10 * k + 5, 10) : k \in 0..(MaxWidth - 1)}

\* resolve_font_path is not called
NoResolve ==
  /\ file_name = <<>>
  /\ resolved = [status |-> 0, detail |-> "", path |-> <<>>]

Idle ==
  [op |-> "none", pc |-> "idle", username |-> <<>>, password |-> <<>>,
   cookie |-> 0, user_id |-> 0, status |-> 0, detail |-> "", set_cookie |-> 0]

Slots == {1, 2}

\* An empty database, no auth request
NoAuth ==
  /\ users = <<>>
  /\ refresh_tokens = <<>>
  /\ clock = 0
  /\ reqs = [s \in Slots |-> Idle]
  /\ accepted = <<>>

NoResponse == [kind |-> "none", status_code |-> 0, json |-> FALSE]

NoCall ==
  [pc |-> "idle", sent |-> <<>>, last_exc |-> "None", response |-> NoResponse,
   status |-> 0, detail |-> ""]

\* No AI task, no AI call
NoTasks ==
  /\ POLO_API_KEY = "key"
  /\ ai_tasks = <<>>
  /\ runs = <<>>
  /\ chat = NoCall

\* None of the other handlers is running
NoService ==
  /\ NoResolve
  /\ NoAuth
  /\ NoTasks

\* No request is running
NoRequest ==
  /\ request = [endpoint |-> "none"]
  /\ block_no = 0
  /\ loads = <<>>
  /\ laid = <<>>
  /\ response = [status |-> 0, body |-> "none"]

\* No layout call is running
NoLayout ==
  /\ image = [width |-> 0, height |-> 0]
  /\ block = [text |-> <<>>]
  /\ respect_line_breaks = FALSE
  /\ line_height = FZero /\ x = FZero /\ y = FZero /\ w = FZero /\ h = FZero
  /\ align = "" /\ paragraphs = <<>>
  /\ cursor_y = FZero /\ idx = 0 /\ lines = <<>> /\ line_no = 0 /\ drawn = <<>>
  /\ canvas = <<>>
  /\ NoRequest

\* ------------------------------------------------------------------------
\* One call of wrap_text_lines
\* ------------------------------------------------------------------------
InitWrap ==
  /\ pc = "call"
  /\ font \in Fonts
  /\ text \in Texts
  /\ max_width \in Widths
  /\ result = <<>>
  /\ NoLayout
  /\ NoService

CallWrap ==
  /\ pc = "call"
  /\ result' = wrap_text_lines(text, max_width, font)
  /\ pc' = "returned"
  /\ UNCHANGED <<font, text, max_width>>
  /\ UNCHANGED layoutVars
  /\ UNCHANGED <<canvas, requestVars, serviceVars>>

NextWrap == CallWrap

SpecWrap == InitWrap /\ [][NextWrap]_vars

\* join(lines, " ")
RECURSIVE JoinSpace(_)
JoinSpace(ls) ==
  IF ls = <<>> THEN <<>>
  ELSE IF Len(ls) = 1 THEN ls[1]
  ELSE ls[1] \o <<" ">> \o JoinSpace(Tail(ls))

HasWhitespace(t) == \E i \in 1..Len(t) : isspace(t[i])

Fits(s) == FLe(measure_text(s, font), max_width)

\* ------------------------------------------------------------------------
\* Properties of wrap_text_lines (checked under SpecWrap)
\* ------------------------------------------------------------------------
\* C1: for a max width above zero every returned line either measures at
\* most the max width or is a single character that alone exceeds it.
C1_WrapCorrectness ==
  (pc = "returned" /\ FGt(max_width, FZero)) =>
    \A i \in 1..Len(result) :
      \/ Fits(result[i])
      \/ (Len(result[i]) = 1 /\ ~Fits(result[i]))

\* C1 witness: a call that returned both a line of several characters that
\* fits and a single character wider than the max width.
C1_Witness ==
  /\ pc = "returned" /\ FGt(max_width, FZero)
  /\ \E i \in 1..Len(result) : Len(result[i]) = 1 /\ ~Fits(result[i])
  /\ \E j \in 1..Len(result) : Len(result[j]) > 1 /\ Fits(result[j])

\* C2 as stated: for a paragraph with whitespace, the lines joined by single
\* spaces and split on whitespace are the paragraph's words, also when a
\* word is wider than the max width.
C2_Reconstruction ==
  (pc = "returned" /\ HasWhitespace(text)) =>
    split(JoinSpace(result)) = split(text)

\* C2 amended: the same, for paragraphs all of whose words fit the max
\* width on their own (a wider word is cut into chunks on separate lines).
C2_ReconstructionWhenWordsFit ==
  (/\ pc = "returned"
   /\ HasWhitespace(text)
   /\ \A k \in 1..Len(split(text)) : Fits(split(text)[k])) =>
    split(JoinSpace(result)) = split(text)

\* C2 witness: three fitting words wrapped onto at least two lines, one of
\* which holds two words.
C2_Witness ==
  /\ pc = "returned"
  /\ HasWhitespace(text)
  /\ Len(split(text)) >= 3
  /\ \A k \in 1..Len(split(text)) : Fits(split(text)[k])
  /\ Len(result) >= 2
  /\ \E i \in 1..Len(result) : HasWhitespace(result[i])

\* C7: the result holds an empty line exactly when the text is empty, and
\* then it is the one-element list [""]; a non-empty text gives no empty
\* line.
C7_EmptyLineIffEmptyText ==
  pc = "returned" =>
    /\ (text = <<>> => result = << <<>> >>)
    /\ (text # <<>> => \A i \in 1..Len(result) : result[i] # <<>>)

\* C7 witness: the empty text returned one empty line.
C7_Witness == pc = "returned" /\ text = <<>> /\ result = << <<>> >>

\* Every character of the text has advance a and no kerning applies
UniformAdvance(a) ==
  /\ \A i \in 1..Len(text) : font.adv[text[i]] = a
  /\ \A i \in 2..Len(text) : font.kern[<<text[i - 1], text[i]>>] = 0

CeilDiv(n, k) == (n + k - 1) \div k

\* C8: n >= 1 characters without whitespace, all of advance a, additive,
\* max width exactly k * a: ceil(n / k) lines, all of k characters but
\* possibly the last, which holds the rest.
C8_UniformRunLengths ==
  \A a \in 1..3 : \A k \in 1..MaxWidth :
    (/\ pc = "returned"
     /\ text # <<>>
     /\ ~HasWhitespace(text)
     /\ UniformAdvance(a)
     /\ max_width = FromInt(k * a)) =>
      /\ Len(result) = CeilDiv(Len(text), k)
      /\ \A i \in 1..(Len(result) - 1) : Len(result[i]) = k
      /\ Len(result[Len(result)]) = Len(text) - k * (Len(result) - 1)

\* C8 witness: 7 characters, width of exactly 3 of them, lines of 3, 3, 1.
C8_Witness ==
  /\ pc = "returned"
  /\ Len(text) = 7
  /\ UniformAdvance(2)
  /\ max_width = FromInt(3 * 2)
  /\ <<Len(result[1]), Len(result[2]), Len(result[3])>> = <<3, 3, 1>>
  /\ Len(result) = 3

\* C9: two words that each fit while "word1 word2" does not are returned as
\* the two lines [word1, word2].
C9_TwoWordsTwoLines ==
  LET words == split(text)
  IN  (/\ pc = "returned"
       /\ HasWhitespace(text)
       /\ Len(words) = 2
       /\ Fits(words[1])
       /\ Fits(words[2])
       /\ ~Fits(words[1] \o <<" ">> \o words[2])) =>
        result = <<words[1], words[2]>>

\* C9 witness: "a b" with max width = advance("a") = advance("b").
C9_Witness ==
  /\ pc = "returned"
  /\ text = <<"a", " ", "b">>
  /\ measure_text(<<"a">>, font) = measure_text(<<"b">>, font)
  /\ max_width = measure_text(<<"a">>, font)
  /\ result = << <<"a">>, <<"b">> >>

\* ------------------------------------------------------------------------
\* draw_layout_text: the inputs explored
\* ------------------------------------------------------------------------
MaxParas == 7    \* blocks of up to MaxParas paragraphs
MaxWords == 7    \* and a paragraph of MaxWords one-letter words

\* The lines one after the other, nothing between them
RECURSIVE Concat(_)
Concat(ls) == IF ls = <<>> THEN <<>> ELSE ls[1] \o Concat(Tail(ls))

DropWhitespace(s) == SelectSeq(s, LAMBDA ch : ~isspace(ch))

\* C23: the returned lines, concatenated and with all whitespace deleted,
\* are the non-whitespace characters of the text in their order; so a word
\* wider than the max width is split without loss, duplication or
\* reordering, and the words after it are wrapped as well.
C23_CharactersPreserved ==
  pc = "returned" =>
    DropWhitespace(Concat(result)) = DropWhitespace(text)

\* C23 witness: a word wider than the max width was split over two lines
\* and the word after it went on the line of its last chunk.
C23_Witness ==
  /\ pc = "returned"
  /\ HasWhitespace(text)
  /\ Len(split(text)) = 2
  /\ ~Fits(split(text)[1])
  /\ Len(result) >= 2
  /\ HasWhitespace(result[Len(result)])
  /\ Concat(SubSeq(result, 1, Len(result) - 1)) \o result[Len(result)]
       = split(text)[1] \o <<" ">> \o split(text)[2]

\* The number of non-whitespace characters on the first i returned lines
BreakAt(i) == Len(DropWhitespace(Concat(SubSeq(result, 1, i))))

\* The number of characters of the first k words
PrefixLen(words, k) == Len(Concat(SubSeq(words, 1, k)))

\* The break after line i falls between two words
BeforeWord(i) ==
  \E k \in 1..(Len(split(text)) - 1) : PrefixLen(split(text), k) = BreakAt(i)

\* C24: a break before a word is there only because the line before it,
\* one space and that word measure more than the max width (the whole
\* candidate string is measured, an exact fit makes no break); a break
\* inside a word is there only because the chunk before it and the next
\* character measure more than the max width.
C24_GreedyBreaks ==
  pc = "returned" =>
    \A i \in 1..(Len(result) - 1) :
      IF BeforeWord(i)
      THEN \A k \in 1..(Len(split(text)) - 1) :
             PrefixLen(split(text), k) = BreakAt(i) =>
               ~Fits(result[i] \o <<" ">> \o split(text)[k + 1])
      ELSE ~Fits(Append(result[i], result[i + 1][1]))

\* C24 witness: a call that broke before a word, the line before it filling
\* the max width exactly, and then broke inside that word.
C24_Witness ==
  /\ pc = "returned"
  /\ HasWhitespace(text)
  /\ Len(result) >= 3
  /\ measure_text(result[1], font) = max_width
  /\ BeforeWord(1)
  /\ ~BeforeWord(2)

\* "\n".join(ps)
RECURSIVE JoinNewline(_)
JoinNewline(ps) ==
  IF ps = <<>> THEN <<>>
  ELSE IF Len(ps) = 1 THEN ps[1]
  ELSE ps[1] \o <<"\n">> \o JoinNewline(Tail(ps))

RECURSIVE WordRun(_)
WordRun(k) == IF k <= 1 THEN <<"a">> ELSE <<"a", " ">> \o WordRun(k - 1)

FirstParas == {<<>>, <<"a", " ", "b">>, WordRun(MaxWords)}
RestParas  == {<<"a">>, <<"a", " ", "b">>}

BlockTexts ==
  {JoinNewline(<<p1>> \o [i \in 1..n |-> p2]) :
     p1 \in FirstParas, p2 \in RestParas, n \in 0..(MaxParas - 1)}

\* The canvas: payload.width x payload.height
Images == {[width |-> 7, height |-> 800]}

\* box fractions (JSON numbers); style.fontSize and style.textAlign
BoxXs      == {FromRatio(1, 10)}
BoxYs      == {FZero, FromRatio(1, 10)}
BoxWidths  == {FromRatio(3, 10), FromRatio(8, 10)}
BoxHeights == {FromRatio(15, 1000), FromRatio(18, 1000),
               FromRatio(30, 1000), FromRatio(36, 1000)}
FontSizes  == {10, 12}
TextAligns == {"left", "center", "right", "justify", ""}

Blocks ==
  {[text  |-> t,
    box   |-> [x |-> bx, y |-> by, width |-> bw, height |-> bh],
    style |-> [fontSize |-> fs, fontWeight |-> 600, fontStyle |-> "normal",
               textDecoration |-> "none", textAlign |-> ta]] :
     t \in BlockTexts, bx \in BoxXs, by \in BoxYs, bw \in BoxWidths,
     bh \in BoxHeights, fs \in FontSizes, ta \in TextAligns}

\* ------------------------------------------------------------------------
\* draw_layout_text
\* ------------------------------------------------------------------------
InitLayout ==
  /\ pc = "enter"
  /\ font = PropFont
  /\ image \in Images
  /\ block \in Blocks
  /\ respect_line_breaks \in BOOLEAN
  /\ line_height = FZero /\ x = FZero /\ y = FZero /\ w = FZero /\ h = FZero
  /\ align = "" /\ paragraphs = <<>>
  /\ cursor_y = FZero /\ idx = 0 /\ lines = <<>> /\ line_no = 0 /\ drawn = <<>>
  /\ canvas = <<>>
  /\ NoRequest
  /\ NoService
  /\ text = <<>> /\ max_width = FZero /\ result = <<>>

\* The function up to its loops: the locals
Enter ==
  /\ pc = "enter"
  /\ line_height' = FMul(FromInt(block.style.fontSize), FromRatio(12, 10))
  /\ x' = FMul(block.box.x, FromInt(image.width))
  /\ y' = FMul(block.box.y, FromInt(image.height))
  /\ w' = FMul(block.box.width, FromInt(image.width))
  /\ h' = FMul(block.box.height, FromInt(image.height))
  /\ cursor_y' = y'
  /\ align' = IF block.style.textAlign = "" THEN "left" ELSE block.style.textAlign
  /\ paragraphs' = split_newline(block.text)
  /\ lines' = IF respect_line_breaks THEN paragraphs' ELSE <<>>
  /\ idx' = 1
  /\ line_no' = 1
  /\ pc' = IF respect_line_breaks THEN "rlb_loop" ELSE "para_loop"
  /\ UNCHANGED <<drawn, inputVars, wrapVars, serviceVars, canvas, requestVars>>

\* Mutant of Overflows: the test forgets the height of the line to draw
Overflows_NoLineHeight == FGt(cursor_y, FAdd(y, h))

\* if cursor_y + line_height > y + h
Overflows == FGt(FAdd(cursor_y, line_height), FAdd(y, h))

\* Mutant of DrawX: an unrecognised alignment centres, centring forgets / 2
DrawX_Swapped(line) ==
  LET line_width == measure_text(line, font)
  IN  IF align = "center" THEN FAdd(x, FSub(w, line_width))
      ELSE IF align = "right" THEN FAdd(x, FSub(w, line_width))
      ELSE IF align = "left" THEN x
      ELSE FAdd(x, FHalf(FSub(w, line_width)))

\* Mutant of DrawX: right alignment forgets the width of the line
DrawX_RightNoWidth(line) ==
  LET line_width == measure_text(line, font)
  IN  IF align = "center" THEN FAdd(x, FHalf(FSub(w, line_width)))
      ELSE IF align = "right" THEN FAdd(x, w)
      ELSE x

\* draw_x of a line
DrawX(line) ==
  LET line_width == measure_text(line, font)
  IN  IF align = "center" THEN FAdd(x, FHalf(FSub(w, line_width)))
      ELSE IF align = "right" THEN FAdd(x, FSub(w, line_width))
      ELSE x

\* draw_line_with_style(image, draw, line, draw_x, cursor_y, font, color,
\* underline, bold, italic, line_height): the arguments of the call
DrawCall(line) ==
  [text        |-> line,
   x           |-> DrawX(line),
   y           |-> cursor_y,
   underline   |-> block.style.textDecoration = "underline",
   bold        |-> block.style.fontWeight >= 700,
   italic      |-> block.style.fontStyle = "italic",
   line_height |-> line_height]

Max(a, b) == IF a >= b THEN a ELSE b

\* Mutant of Offsets: a bold line is stamped twice only
Offsets_Two(bold) ==
  IF bold THEN << <<0, 0>>, <<1, 0>> >> ELSE << <<0, 0>> >>

\* offsets = [(0, 0), (1, 0), (0, 1)] if bold else [(0, 0)]
Offsets(bold) ==
  IF bold THEN << <<0, 0>>, <<1, 0>>, <<0, 1>> >> ELSE << <<0, 0>> >>

\* The non-italic branch: draw.text((x + dx, y + dy), text) for each offset
GlyphOps(c) ==
  LET offsets == Offsets(c.bold)
  IN  [i \in 1..Len(offsets) |->
         [op   |-> "text",
          text |-> c.text,
          x    |-> FAdd(c.x, FromInt(offsets[i][1])),
          y    |-> FAdd(c.y, FromInt(offsets[i][2]))]]

\* The italic branch: the off-screen buffer, stamped at each offset and then
\* sheared by temp.transform into a buffer int(temp.height * 0.25) wider
ItalicBuffer(c) ==
  LET text_width  == FInt(measure_text(c.text, font)) + 20
      temp_height == FInt(FMul(c.line_height, FromRatio(12, 10)))
      offsets     == Offsets(c.bold)
      stamps      == [i \in 1..Len(offsets) |->
                        [op   |-> "text",
                         text |-> c.text,
                         x    |-> offsets[i][1],
                         y    |-> offsets[i][2]]]
  IN  [width  |-> text_width
                    + FInt(FMul(FromInt(temp_height), FromRatio(25, 100))),
       height |-> temp_height,
       ops    |-> Append(stamps, [op |-> "transform",
                                  shear |-> FromRatio(-25, 100)])]

\* base.paste(transformed, (int(x), int(y)), transformed)
PasteOp(c) ==
  [op |-> "paste", x |-> FInt(c.x), y |-> FInt(c.y), src |-> ItalicBuffer(c)]

\* width=max(1, int(line_height * 0.06))
UnderlineWidth(lh) == Max(1, FInt(FMul(lh, FromRatio(6, 100))))

\* Mutant of UnderlineOp: the rule is laid at the paste position of italic
UnderlineOp_AtPaste(c) ==
  LET text_width  == measure_text(c.text, font)
      px          == FromInt(FInt(c.x))
      underline_y == FAdd(FromInt(FInt(c.y)), FMul(c.line_height, FromRatio(85, 100)))
  IN  [op |-> "line", x1 |-> px, y1 |-> underline_y,
       x2 |-> FAdd(px, text_width), y2 |-> underline_y,
       width |-> UnderlineWidth(c.line_height)]

\* draw.line((x, underline_y, x + text_width, underline_y), width=...)
UnderlineOp(c) ==
  LET text_width  == measure_text(c.text, font)
      underline_y == FAdd(c.y, FMul(c.line_height, FromRatio(85, 100)))
  IN  [op |-> "line", x1 |-> c.x, y1 |-> underline_y,
       x2 |-> FAdd(c.x, text_width), y2 |-> underline_y,
       width |-> UnderlineWidth(c.line_height)]

\* draw_line_with_style: what one call draws on the image, in order
draw_line_with_style(c) ==
  (IF c.italic THEN <<PasteOp(c)>> ELSE GlyphOps(c))
    \o (IF c.underline THEN <<UnderlineOp(c)>> ELSE <<>>)

\* Mutant of RlbDrawLine: the segment is cut to the width of the box
RlbDrawLine_Wrapped ==
  /\ pc = "rlb_loop"
  /\ line_no <= Len(lines)
  /\ ~Overflows
  /\ drawn' = Append(drawn, DrawCall(wrap_text_lines(lines[line_no], w, font)[1]))
  /\ canvas' = canvas \o draw_line_with_style(DrawCall(lines[line_no]))
  /\ cursor_y' = FAdd(cursor_y, line_height)
  /\ line_no' = line_no + 1
  /\ UNCHANGED <<pc, idx, lines, inputVars, localVars, wrapVars, serviceVars, requestVars>>

\* The loop of respectLineBreaks mode: one line drawn
RlbDrawLine ==
  /\ pc = "rlb_loop"
  /\ line_no <= Len(lines)
  /\ ~Overflows
  /\ drawn' = Append(drawn, DrawCall(lines[line_no]))
  /\ canvas' = canvas \o draw_line_with_style(DrawCall(lines[line_no]))
  /\ cursor_y' = FAdd(cursor_y, line_height)
  /\ line_no' = line_no + 1
  /\ UNCHANGED <<pc, idx, lines, inputVars, localVars, wrapVars, serviceVars, requestVars>>

\* The loop of respectLineBreaks mode: the line does not fit, return
RlbOverflow ==
  /\ pc = "rlb_loop"
  /\ line_no <= Len(lines)
  /\ Overflows
  /\ pc' = "clipped"
  /\ UNCHANGED <<loopVars, inputVars, localVars, wrapVars, serviceVars, canvas, requestVars>>

\* The loop of respectLineBreaks mode is exhausted: return
RlbReturn ==
  /\ pc = "rlb_loop"
  /\ line_no > Len(lines)
  /\ pc' = "done"
  /\ UNCHANGED <<loopVars, inputVars, localVars, wrapVars, serviceVars, canvas, requestVars>>

\* for idx, paragraph in enumerate(paragraphs): lines = wrap_text_lines(...)
WrapParagraph ==
  /\ pc = "para_loop"
  /\ idx <= Len(paragraphs)
  /\ lines' = wrap_text_lines(paragraphs[idx], w, font)
  /\ line_no' = 1
  /\ pc' = "line_loop"
  /\ UNCHANGED <<cursor_y, idx, drawn, inputVars, localVars, wrapVars, serviceVars, canvas, requestVars>>

\* The paragraphs are exhausted: the function ends
ParagraphsDone ==
  /\ pc = "para_loop"
  /\ idx > Len(paragraphs)
  /\ pc' = "done"
  /\ UNCHANGED <<loopVars, inputVars, localVars, wrapVars, serviceVars, canvas, requestVars>>

\* The inner loop of wrap mode: one line drawn
WrapDrawLine ==
  /\ pc = "line_loop"
  /\ line_no <= Len(lines)
  /\ ~Overflows
  /\ drawn' = Append(drawn, DrawCall(lines[line_no]))
  /\ canvas' = canvas \o draw_line_with_style(DrawCall(lines[line_no]))
  /\ cursor_y' = FAdd(cursor_y, line_height)
  /\ line_no' = line_no + 1
  /\ UNCHANGED <<pc, idx, lines, inputVars, localVars, wrapVars, serviceVars, requestVars>>

\* Mutant of WrapOverflow: the paragraph that overflowed is wrapped again
WrapOverflow_Retry ==
  /\ pc = "line_loop"
  /\ line_no <= Len(lines)
  /\ Overflows
  /\ pc' = "para_loop"
  /\ UNCHANGED <<loopVars, inputVars, localVars, wrapVars, serviceVars, canvas, requestVars>>

\* The inner loop of wrap mode: the line does not fit, return
WrapOverflow ==
  /\ pc = "line_loop"
  /\ line_no <= Len(lines)
  /\ Overflows
  /\ pc' = "clipped"
  /\ UNCHANGED <<loopVars, inputVars, localVars, wrapVars, serviceVars, canvas, requestVars>>

\* Mutant of EndParagraph: the gap follows the last paragraph too
EndParagraph_GapAlways ==
  /\ pc = "line_loop"
  /\ line_no > Len(lines)
  /\ cursor_y' = FAdd(cursor_y, FMul(line_height, FromRatio(2, 10)))
  /\ idx' = idx + 1
  /\ pc' = "para_loop"
  /\ UNCHANGED <<lines, line_no, drawn, inputVars, localVars, wrapVars, serviceVars, canvas, requestVars>>

\* The lines of the paragraph are exhausted: the gap, the next paragraph
EndParagraph ==
  /\ pc = "line_loop"
  /\ line_no > Len(lines)
  /\ cursor_y' = IF idx < Len(paragraphs)
                 THEN FAdd(cursor_y, FMul(line_height, FromRatio(2, 10)))
                 ELSE cursor_y
  /\ idx' = idx + 1
  /\ pc' = "para_loop"
  /\ UNCHANGED <<lines, line_no, drawn, inputVars, localVars, wrapVars, serviceVars, canvas, requestVars>>

NextLayout ==
  \/ Enter
  \/ RlbDrawLine \/ RlbOverflow \/ RlbReturn
  \/ WrapParagraph \/ ParagraphsDone
  \/ WrapDrawLine \/ WrapOverflow \/ EndParagraph

SpecLayout == InitLayout /\ [][NextLayout]_vars

\* ------------------------------------------------------------------------
\* Properties of draw_layout_text (checked under SpecLayout)
\* ------------------------------------------------------------------------
Finished == pc \in {"done", "clipped"}

RECURSIVE WrappedLineCount(_)
WrappedLineCount(ps) ==
  IF ps = <<>> THEN 0
  ELSE Len(wrap_text_lines(ps[1], w, font)) + WrappedLineCount(Tail(ps))

\* The number of lines the text of the block produces
ProducedLines ==
  IF respect_line_breaks THEN Len(paragraphs) ELSE WrappedLineCount(paragraphs)

\* C3 as stated: a box of exactly N line heights and a text producing N + 5
\* lines, in either mode and from one or several paragraphs: exactly N
\* lines are drawn.
C3_OverflowClipping ==
  \A n \in 1..MaxParas :
    (/\ Finished
     /\ h = FMul(FromInt(n), line_height)
     /\ ProducedLines = n + 5) =>
      Len(drawn) = n

\* C4: every drawn line passed the test cursor_y + line_height <= y + h;
\* after a line failed it nothing more is drawn, and drawn lines stay.
C4_DrawnLinesFit ==
  \A i \in 1..Len(drawn) : FLe(FAdd(drawn[i].y, line_height), FAdd(y, h))

C4_StopAtOverflow ==
  /\ []C4_DrawnLinesFit
  /\ [][/\ (pc = "clipped" => drawn' = drawn)
        /\ Len(drawn') >= Len(drawn)
        /\ SubSeq(drawn', 1, Len(drawn)) = drawn]_vars

\* C4 witness: wrap mode, two lines drawn, then a line failed the test with
\* a further paragraph still to come.
C4_Witness ==
  /\ pc = "clipped"
  /\ ~respect_line_breaks
  /\ Len(drawn) >= 2
  /\ idx < Len(paragraphs)

LineWidth(d) == measure_text(d.text, font)

\* C5 as stated: the span [draw_x, draw_x + line_width] of every drawn line
\* lies inside [x, x + w].
C5_SpanInsideBox ==
  \A i \in 1..Len(drawn) :
    /\ FLe(x, drawn[i].x)
    /\ FLe(FAdd(drawn[i].x, LineWidth(drawn[i])), FAdd(x, w))

\* C5 amended: a drawn line no wider than the box starts inside the box and
\* leaves room for its width: x <= draw_x <= x + (w - line_width).
C5_SpanInsideBoxWhenLineFits ==
  \A i \in 1..Len(drawn) :
    FLe(LineWidth(drawn[i]), w) =>
      /\ FLe(x, drawn[i].x)
      /\ FLe(drawn[i].x, FAdd(x, FSub(w, LineWidth(drawn[i]))))

\* C5 witness: a right-aligned line narrower than the box was drawn.
C5_Witness ==
  /\ Finished
  /\ align = "right"
  /\ \E i \in 1..Len(drawn) :
       /\ drawn[i].text # <<>>
       /\ ~FLe(w, LineWidth(drawn[i]))

\* C6: draw_x is x + (w - lw) / 2 for "center", x + (w - lw) for "right"
\* and x for "left" and every other textAlign, the empty one included.
C6_Alignment ==
  \A i \in 1..Len(drawn) :
    LET lw == LineWidth(drawn[i])
        ta == block.style.textAlign
    IN  drawn[i].x = IF ta = "center" THEN FAdd(x, FHalf(FSub(w, lw)))
                     ELSE IF ta = "right" THEN FAdd(x, FSub(w, lw))
                     ELSE x

\* C6 witness: a centred line narrower than the box was drawn to the right
\* of x.
C6_Witness ==
  /\ Finished
  /\ block.style.textAlign = "center"
  /\ \E i \in 1..Len(drawn) :
       /\ ~FLe(w, LineWidth(drawn[i]))
       /\ ~FLe(drawn[i].x, x)

\* ------------------------------------------------------------------------
\* draw_line_with_style: the styles explored
\* ------------------------------------------------------------------------
MaxFontSize == 24   \* style.fontSize from 1 to MaxFontSize

StyleTexts ==
  {<<"a", "b">>,
   <<"a", "b", " ", "a", "b", "\n", "a">>,
   <<"a", "\n", " ", "\n", "a">>}
FontWeights     == {400, 699, 700}
FontStyles      == {"normal", "italic", "oblique"}
TextDecorations == {"none", "underline", "line-through"}

\* A box 5.6 pixels wide and 40 high, at (0.7, 10.4): "ab" is 4 pixels wide
\* and "ab ab" 9; one line of every size fits, further ones of the small
\* sizes only.
StyleBlocks ==
  {[text  |-> t,
    box   |-> [x |-> FromRatio(1, 10), y |-> FromRatio(13, 1000),
               width |-> FromRatio(8, 10), height |-> FromRatio(5, 100)],
    style |-> [fontSize |-> fs, fontWeight |-> fw, fontStyle |-> st,
               textDecoration |-> td, textAlign |-> "right"]] :
     t \in StyleTexts, fs \in 1..MaxFontSize, fw \in FontWeights,
     st \in FontStyles, td \in TextDecorations}

InitStyle ==
  /\ pc = "enter"
  /\ font = PropFont
  /\ image \in Images
  /\ block \in StyleBlocks
  /\ respect_line_breaks \in BOOLEAN
  /\ line_height = FZero /\ x = FZero /\ y = FZero /\ w = FZero /\ h = FZero
  /\ align = "" /\ paragraphs = <<>>
  /\ cursor_y = FZero /\ idx = 0 /\ lines = <<>> /\ line_no = 0 /\ drawn = <<>>
  /\ canvas = <<>>
  /\ NoRequest
  /\ NoService
  /\ text = <<>> /\ max_width = FZero /\ result = <<>>

SpecStyle == InitStyle /\ [][NextLayout]_vars

\* ------------------------------------------------------------------------
\* Properties of draw_line_with_style (checked under SpecStyle)
\* ------------------------------------------------------------------------
\* What the i-th call drew: every call of a block draws the same number of
\* things, its style being the same.
LineOps(i) ==
  LET n == Len(canvas) \div Len(drawn)
  IN  SubSeq(canvas, (i - 1) * n + 1, i * n)

IsText(o)  == o.op = "text"
IsPaste(o) == o.op = "paste"
IsRule(o)  == o.op = "line"

\* C11 as stated: the thickness of every underline is 0.06 x lineHeight
\* rounded to the nearest integer, and at least 1.
C11_UnderlineThicknessRounded ==
  \A i \in 1..Len(canvas) :
    IsRule(canvas[i]) =>
      canvas[i].width = Max(1, FNearest(FMul(line_height, FromRatio(6, 100))))

\* The positions <<x, y>> of a sequence of stamps
Positions(stamps) == [j \in 1..Len(stamps) |-> <<stamps[j].x, stamps[j].y>>]

\* C12: a line of a block with fontWeight >= 700 is stamped three times, at
\* (0,0), (1,0) and (0,1), and any other line once at (0,0): relative to
\* (x, y) on the canvas when not italic, and inside the off-screen buffer,
\* before its shear, when italic.
C12_BoldStamps ==
  /\ drawn # <<>> => Len(canvas) % Len(drawn) = 0
  /\ \A i \in 1..Len(drawn) :
       LET ops    == LineOps(i)
           d      == drawn[i]
           bold   == block.style.fontWeight >= 700
           onBase == SelectSeq(ops, IsText)
           pastes == SelectSeq(ops, IsPaste)
       IN  IF block.style.fontStyle = "italic"
           THEN /\ onBase = <<>>
                /\ Len(pastes) = 1
                /\ LET b == pastes[1].src.ops
                       n == Len(b) - 1
                   IN  /\ n >= 1
                       /\ b[n + 1].op = "transform"
                       /\ \A j \in 1..n : b[j].op = "text" /\ b[j].text = d.text
                       /\ Positions(SubSeq(b, 1, n)) =
                            IF bold THEN << <<0, 0>>, <<1, 0>>, <<0, 1>> >>
                            ELSE << <<0, 0>> >>
           ELSE /\ pastes = <<>>
                /\ \A j \in 1..Len(onBase) : onBase[j].text = d.text
                /\ Positions(onBase) =
                     IF bold
                     THEN << <<d.x, d.y>>,
                             <<FAdd(d.x, FromInt(1)), d.y>>,
                             <<d.x, FAdd(d.y, FromInt(1))>> >>
                     ELSE << <<d.x, d.y>> >>

\* C12 witness: a bold italic line was drawn, its buffer holding at least
\* two stamps before the shear.
C12_Witness ==
  /\ Finished
  /\ block.style.fontWeight >= 700
  /\ block.style.fontStyle = "italic"
  /\ \E i \in 1..Len(canvas) :
       /\ IsPaste(canvas[i])
       /\ Len(canvas[i].src.ops) >= 3

\* C13: a line has an underline exactly when textDecoration is "underline",
\* whatever bold and italic are; the rule is the last thing the call draws,
\* after its glyphs or its paste, and runs from (x, y + 0.85 * line_height)
\* to (x + line_width, y + 0.85 * line_height) with the x and y passed, not
\* those of the sheared buffer; what is on the canvas stays.
C13_UnderlineRule ==
  \A i \in 1..Len(drawn) :
    LET ops   == LineOps(i)
        d     == drawn[i]
        rules == SelectSeq(ops, IsRule)
        uy    == FAdd(d.y, FMul(line_height, FromRatio(85, 100)))
    IN  IF block.style.textDecoration = "underline"
        THEN /\ Len(rules) = 1
             /\ Len(ops) >= 2
             /\ IsRule(ops[Len(ops)])
             /\ rules[1].x1 = d.x /\ rules[1].y1 = uy
             /\ rules[1].x2 = FAdd(d.x, LineWidth(d)) /\ rules[1].y2 = uy
        ELSE rules = <<>>

C13_UnderlineAfterGlyphs ==
  /\ []C13_UnderlineRule
  /\ [][/\ Len(canvas') >= Len(canvas)
        /\ SubSeq(canvas', 1, Len(canvas)) = canvas]_vars

\* C13 witness: an underlined bold italic line was drawn at a position that
\* is not a whole pixel, so that the paste and the rule start apart.
C13_Witness ==
  /\ Finished
  /\ block.style.textDecoration = "underline"
  /\ block.style.fontWeight >= 700
  /\ block.style.fontStyle = "italic"
  /\ \E i \in 1..Len(canvas) :
       /\ IsRule(canvas[i])
       /\ canvas[i].x1 # FromInt(FInt(canvas[i].x1))

\* ------------------------------------------------------------------------
\* Properties of the vertical cursor (checked under SpecStyle)
\* ------------------------------------------------------------------------
\* The segments of the text and what the style gives, as the claims name them
Segments   == split_newline(block.text)
LineHeight == FMul(FromInt(block.style.fontSize), FromRatio(12, 10))
BoxTop     == FMul(block.box.y, FromInt(image.height))
BoxBottom  == FAdd(BoxTop, FMul(block.box.height, FromInt(image.height)))
BoxWidth   == FMul(block.box.width, FromInt(image.width))
Gap        == FMul(LineHeight, FromRatio(2, 10))

\* The paragraph (counted from 1) the i-th line of wrap mode comes from
RECURSIVE ParaFrom(_, _)
ParaFrom(i, k) ==
  LET n == Len(wrap_text_lines(Segments[k], BoxWidth, font))
  IN  IF i <= n \/ k = Len(Segments) THEN k ELSE ParaFrom(i - n, k + 1)

ParaOf(i) == ParaFrom(i, 1)

\* v + Gap + ... + Gap, n times
RECURSIVE AddGaps(_, _)
AddGaps(v, n) == IF n <= 0 THEN v ELSE AddGaps(FAdd(v, Gap), n - 1)

FAbs(a) == [a EXCEPT !.neg = FALSE]

\* 2^-30, far above the rounding of a few additions of pixel positions
Tiny == FRound(FALSE, <<1>>, -30, FALSE)

\* boxY + k * lineHeight + 0.2 * lineHeight * g
ClosedForm(k, g) ==
  FAdd(FAdd(BoxTop, FMul(FromInt(k), LineHeight)),
       FMul(FMul(FromRatio(2, 10), LineHeight), FromInt(g)))

\* C14: in wrap mode a line lies one line height below the line before it,
\* plus 0.2 line heights for every paragraph boundary between the two, the
\* first line at the top of the box; its position is
\* boxY + k * lineHeight + 0.2 * lineHeight * (boundaries before it), up to
\* the rounding of the additions, k counted from 0.  In respectLineBreaks
\* mode a line lies exactly one line height below the line before it.
C14_CursorAdvance ==
  /\ \A i \in 1..Len(drawn) :
       LET before == IF i = 1 THEN BoxTop ELSE FAdd(drawn[i - 1].y, LineHeight)
           gaps   == IF respect_line_breaks THEN 0
                     ELSE ParaOf(i) - (IF i = 1 THEN 1 ELSE ParaOf(i - 1))
           all    == IF respect_line_breaks THEN 0 ELSE ParaOf(i) - 1
       IN  /\ drawn[i].y = AddGaps(before, gaps)
           /\ FLe(FAbs(FSub(drawn[i].y, ClosedForm(i - 1, all))), Tiny)
  /\ pc = "done" =>
       cursor_y = IF drawn = <<>> THEN BoxTop
                  ELSE FAdd(drawn[Len(drawn)].y, LineHeight)

\* C14 witness: wrap mode drew two lines of one paragraph and a line of the
\* next one, 1.2 line heights below.
C14_Witness ==
  /\ pc = "done"
  /\ ~respect_line_breaks
  /\ Len(drawn) = 3
  /\ ParaOf(2) = 1 /\ ParaOf(3) = 2
  /\ drawn[3].y = FAdd(FAdd(drawn[2].y, LineHeight), Gap)
  /\ drawn[3].y # FAdd(drawn[2].y, LineHeight)

Min(a, b) == IF a <= b THEN a ELSE b

\* The position of the n-th line of respectLineBreaks mode
RECURSIVE RlbLineY(_)
RlbLineY(n) == IF n <= 1 THEN BoxTop ELSE FAdd(RlbLineY(n - 1), LineHeight)

\* How many lines fit vertically, of at most n
RECURSIVE FitCount(_)
FitCount(n) ==
  IF n = 0 THEN 0
  ELSE LET below == FitCount(n - 1)
       IN  IF below = n - 1 /\ FLe(FAdd(RlbLineY(n), LineHeight), BoxBottom)
           THEN n ELSE below

\* C15: in respectLineBreaks mode the lines are never wrapped: the i-th line
\* drawn is the i-th newline-delimited segment, whatever its width, and at
\* the end the lines drawn are the first min(segments, lines that fit).
C15_SegmentsVerbatim ==
  respect_line_breaks =>
    /\ pc \notin {"para_loop", "line_loop"}
    /\ Len(drawn) <= Len(Segments)
    /\ \A i \in 1..Len(drawn) : drawn[i].text = Segments[i]
    /\ Finished =>
         Len(drawn) = Min(Len(Segments), FitCount(Len(Segments)))

MaxBlocks == 2   \* layout requests of up to MaxBlocks blocks

\* What the font file named by the request is: a font FreeType opens, one it
\* opens only after fontTools saved it again, one neither opens, no file.
FontFiles == {"good", "malformed", "broken", "missing"}

\* format.lower()
Formats == {"png", "webp", "PNG", "gif"}
lower(f) == IF f = "PNG" THEN "png" ELSE f

\* Two lines in a box of 28.8 pixels at the top of the canvas or 80 pixels
\* below it: both fit at size 10, at size 12 the second one fits at the top
\* only; size 0 is no font size.
RequestBlocks ==
  {[text  |-> <<"a", "\n", "a">>,
    box   |-> [x |-> FromRatio(1, 10), y |-> by,
               width |-> FromRatio(8, 10), height |-> FromRatio(36, 1000)],
    style |-> [fontSize |-> fs, fontWeight |-> 600, fontStyle |-> "normal",
               textDecoration |-> "none", textAlign |-> "left"]] :
     by \in BoxYs, fs \in {0, 10, 12}}

LayoutRequests ==
  {[endpoint |-> "layout", font |-> f, width |-> wd, height |-> ht,
    background |-> bg, format |-> fmt, blocks |-> bs,
    respectLineBreaks |-> rlb] :
     f \in FontFiles, wd \in {0, 7}, ht \in {-1, 800},
     bg \in {"", "transparent"}, fmt \in {"png", "webp", "gif"},
     bs \in SeqsUpTo(RequestBlocks, MaxBlocks), rlb \in BOOLEAN}

\* PreviewRequest: background is "#ffffff" when the request names none; bbox
\* is what multiline_textbbox((0, 0), text) gives for the text and the size.
PreviewRequests ==
  {[endpoint |-> "preview", font |-> f, size |-> sz, width |-> wd,
    height |-> ht, padding |-> pd, format |-> fmt,
    background_given |-> bgg,
    background |-> IF bgg THEN "#ff0000" ELSE "#ffffff",
    bbox |-> <<o[1], o[2], o[1] + tw, o[2] + th>>] :
     f \in FontFiles, sz \in {0, 12}, wd \in {0, 10}, ht \in {0, 8},
     pd \in {0, 2, 3}, fmt \in Formats, bgg \in BOOLEAN,
     o \in {<<0, 0>>, <<1, 2>>}, tw \in {0, 4, 5, 7, 14}, th \in {2, 9}}

InitRequest ==
  /\ pc = "request"
  /\ request \in LayoutRequests \cup PreviewRequests
  /\ block_no = 0
  /\ loads = <<>>
  /\ laid = <<>>
  /\ response = [status |-> 0, body |-> "none"]
  /\ font = PropFont
  /\ image = [width |-> 0, height |-> 0]
  /\ block = [text |-> <<>>]
  /\ respect_line_breaks = FALSE
  /\ line_height = FZero /\ x = FZero /\ y = FZero /\ w = FZero /\ h = FZero
  /\ align = "" /\ paragraphs = <<>>
  /\ cursor_y = FZero /\ idx = 0 /\ lines = <<>> /\ line_no = 0 /\ drawn = <<>>
  /\ canvas = <<>>
  /\ text = <<>> /\ max_width = FZero /\ result = <<>>
  /\ NoService

\* raise HTTPException(status_code=..., ...)
Error(status) == [status |-> status, body |-> "error"]

\* return Response(content=image_bytes, ...)
ImageResponse == [status |-> 200, body |-> "image"]

\* resolve_font_path, as far as the file decides: 404 when there is none
ResolveFails == request.font = "missing"

\* fonts_layout up to its loop: the checks and Image.new
LayoutValidate ==
  /\ pc = "request"
  /\ request.endpoint = "layout"
  /\ IF ResolveFails
     THEN response' = Error(404) /\ pc' = "responded" /\ UNCHANGED image
     ELSE IF request.width <= 0 \/ request.height <= 0
     THEN response' = Error(400) /\ pc' = "responded" /\ UNCHANGED image
     ELSE IF lower(request.format) \notin {"webp", "png"}
     THEN response' = Error(400) /\ pc' = "responded" /\ UNCHANGED image
     ELSE /\ image' = [width  |-> request.width,
                       height |-> request.height,
                       mode   |-> IF lower(request.format) = "png"
                                  THEN "RGBA" ELSE "RGB",
                       fill   |-> IF request.background = ""
                                  THEN "#000000" ELSE request.background]
          /\ pc' = "next_block"
          /\ UNCHANGED response
  /\ block_no' = 1
  /\ respect_line_breaks' = request.respectLineBreaks
  /\ UNCHANGED <<font, block, request, loads, laid, canvas>>
  /\ UNCHANGED <<localVars, loopVars, wrapVars, serviceVars>>

\* for block in payload.blocks: draw_layout_text(image, block, ...) is called
NextBlock ==
  /\ pc = "next_block"
  /\ block_no <= Len(request.blocks)
  /\ block' = request.blocks[block_no]
  /\ laid' = Append(laid, [block |-> block_no, from |-> Len(drawn),
                           to |-> Len(drawn), how |-> "running"])
  /\ pc' = "load_font"
  /\ UNCHANGED <<font, image, respect_line_breaks, request, block_no, loads,
                 response, canvas>>
  /\ UNCHANGED <<localVars, loopVars, wrapVars, serviceVars>>

\* The size load_font is called with
LoadSize ==
  IF request.endpoint = "layout" THEN block.style.fontSize ELSE request.size

\* Where a call goes on with its font
Loaded == IF request.endpoint = "layout" THEN "enter" ELSE "preview_draw"

\* load_font: ImageFont.truetype(str(font_path), size).  A size that is not
\* positive is refused by Pillow, with an OSError or with a ValueError as
\* the version has it; a ValueError leaves load_font and the handler.
LoadFontDirect ==
  /\ pc = "load_font"
  /\ \/ /\ LoadSize > 0 /\ request.font = "good"
        /\ loads' = Append(loads, [kind |-> "direct", ok |-> TRUE])
        /\ pc' = Loaded
        /\ UNCHANGED response
     \/ /\ LoadSize <= 0 \/ request.font # "good"
        /\ loads' = Append(loads, [kind |-> "direct", ok |-> FALSE])
        /\ pc' = "fallback"
        /\ UNCHANGED response
     \/ /\ LoadSize <= 0
        /\ loads' = Append(loads, [kind |-> "direct", ok |-> FALSE])
        /\ response' = Error(500)
        /\ pc' = "responded"
  /\ UNCHANGED <<font, image, block, respect_line_breaks, request, block_no,
                 laid, canvas>>
  /\ UNCHANGED <<localVars, loopVars, wrapVars, serviceVars>>

\* Mutant of LoadFontFallback: a font that cannot be loaded skips the block
LoadFontFallback_Swallow ==
  /\ pc = "fallback"
  /\ IF LoadSize > 0 /\ request.font = "malformed"
     THEN /\ loads' = Append(loads, [kind |-> "fallback", ok |-> TRUE])
          /\ pc' = Loaded
          /\ UNCHANGED <<response, block_no>>
     ELSE /\ loads' = Append(loads, [kind |-> "fallback", ok |-> FALSE])
          /\ pc' = IF request.endpoint = "layout" THEN "next_block" ELSE "responded"
          /\ block_no' = block_no + 1
          /\ response' = IF request.endpoint = "layout" THEN response ELSE Error(400)
  /\ UNCHANGED <<font, image, block, respect_line_breaks, request, laid, canvas>>
  /\ UNCHANGED <<localVars, loopVars, wrapVars, serviceVars>>

\* load_font, except OSError: the font saved again by fontTools and opened
\* once more; whatever fails now is an HTTPException 400
LoadFontFallback ==
  /\ pc = "fallback"
  /\ IF LoadSize > 0 /\ request.font = "malformed"
     THEN /\ loads' = Append(loads, [kind |-> "fallback", ok |-> TRUE])
          /\ pc' = Loaded
          /\ UNCHANGED response
     ELSE /\ loads' = Append(loads, [kind |-> "fallback", ok |-> FALSE])
          /\ response' = Error(400)
          /\ pc' = "responded"
  /\ UNCHANGED <<font, image, block, respect_line_breaks, request, block_no,
                 laid, canvas>>
  /\ UNCHANGED <<localVars, loopVars, wrapVars, serviceVars>>

\* Mutant of BlockReturn: a block that overflowed ends the loop of the blocks
BlockReturn_StopOnClip ==
  /\ pc \in {"done", "clipped"}
  /\ request.endpoint = "layout"
  /\ laid' = [laid EXCEPT ![Len(laid)] =
                [@ EXCEPT !.to = Len(drawn), !.how = pc]]
  /\ block_no' = IF pc = "clipped" THEN Len(request.blocks) + 1 ELSE block_no + 1
  /\ pc' = "next_block"
  /\ UNCHANGED <<font, image, block, respect_line_breaks, request, loads,
                 response, canvas>>
  /\ UNCHANGED <<localVars, loopVars, wrapVars, serviceVars>>

\* draw_layout_text returned, by either return or at its end: the loop of
\* fonts_layout goes on with the next block
BlockReturn ==
  /\ pc \in {"done", "clipped"}
  /\ request.endpoint = "layout"
  /\ laid' = [laid EXCEPT ![Len(laid)] =
                [@ EXCEPT !.to = Len(drawn), !.how = pc]]
  /\ block_no' = block_no + 1
  /\ pc' = "next_block"
  /\ UNCHANGED <<font, image, block, respect_line_breaks, request, loads,
                 response, canvas>>
  /\ UNCHANGED <<localVars, loopVars, wrapVars, serviceVars>>

\* The blocks are exhausted: image.save and the Response
LayoutRespond ==
  /\ pc = "next_block"
  /\ block_no > Len(request.blocks)
  /\ response' = ImageResponse
  /\ pc' = "responded"
  /\ UNCHANGED <<font, image, block, respect_line_breaks, request, block_no,
                 loads, laid, canvas>>
  /\ UNCHANGED <<localVars, loopVars, wrapVars, serviceVars>>

\* fonts_preview up to load_font: the checks, and Image.new of
\* draw_text_preview
PreviewValidate ==
  /\ pc = "request"
  /\ request.endpoint = "preview"
  /\ IF ResolveFails
     THEN response' = Error(404) /\ pc' = "responded" /\ UNCHANGED image
     ELSE IF request.size <= 0 \/ request.width <= 0 \/ request.height <= 0
     THEN response' = Error(400) /\ pc' = "responded" /\ UNCHANGED image
     ELSE IF lower(request.format) \notin {"png", "webp"}
     THEN response' = Error(400) /\ pc' = "responded" /\ UNCHANGED image
     ELSE /\ image' = IF lower(lower(request.format)) = "png"
                      THEN [width |-> request.width, height |-> request.height,
                            mode |-> "RGBA", fill |-> "transparent"]
                      ELSE [width |-> request.width, height |-> request.height,
                            mode |-> "RGB", fill |-> request.background]
          /\ pc' = "load_font"
          /\ UNCHANGED response
  /\ UNCHANGED <<font, block, respect_line_breaks, request, block_no, loads,
                 laid, canvas>>
  /\ UNCHANGED <<localVars, loopVars, wrapVars, serviceVars>>

\* Mutant of PreviewOrigin: the text is centred, whatever the padding
PreviewOrigin_Centred(padding, size, extent) == (size - extent) \div 2

\* max(padding, (width - text_width) // 2)
PreviewOrigin(padding, size, extent) == Max(padding, (size - extent) \div 2)

\* draw_text_preview after load_font: the text is measured, placed and
\* drawn, the image saved and returned
PreviewDraw ==
  /\ pc = "preview_draw"
  /\ LET bbox        == request.bbox
         text_width  == bbox[3] - bbox[1]
         text_height == bbox[4] - bbox[2]
     IN  canvas' = Append(canvas,
           [op     |-> "multiline_text",
            x      |-> PreviewOrigin(request.padding, request.width, text_width),
            y      |-> PreviewOrigin(request.padding, request.height, text_height),
            width  |-> text_width,
            height |-> text_height])
  /\ response' = ImageResponse
  /\ pc' = "responded"
  /\ UNCHANGED <<font, image, block, respect_line_breaks, request, block_no,
                 loads, laid>>
  /\ UNCHANGED <<localVars, loopVars, wrapVars, serviceVars>>

NextRequest ==
  \/ LayoutValidate \/ NextBlock \/ BlockReturn \/ LayoutRespond
  \/ LoadFontDirect \/ LoadFontFallback
  \/ PreviewValidate \/ PreviewDraw
  \/ NextLayout

SpecRequest == InitRequest /\ [][NextRequest]_vars

\* ------------------------------------------------------------------------
\* Properties of the requests (checked under SpecRequest)
\* ------------------------------------------------------------------------
IsLayout  == request.endpoint = "layout"
IsPreview == request.endpoint = "preview"

\* The box and the line height of the k-th block of the request
TopOf(k)    == FMul(request.blocks[k].box.y, FromInt(request.height))
BottomOf(k) ==
  FAdd(TopOf(k), FMul(request.blocks[k].box.height, FromInt(request.height)))
LineHeightOf(k) ==
  FMul(FromInt(request.blocks[k].style.fontSize), FromRatio(12, 10))

\* C16: the blocks are laid out in the order of the list, each one's lines
\* following those of the block before it on the one canvas, each inside its
\* own box whatever the block before it did; an image is answered only after
\* every block was laid out, a block that overflowed included.
C16_BlocksLaidInOrder ==
  IsLayout =>
    /\ Len(laid) <= Len(request.blocks)
    /\ \A k \in 1..Len(laid) :
         /\ laid[k].block = k
         /\ laid[k].from = IF k = 1 THEN 0 ELSE laid[k - 1].to
         /\ laid[k].from <= laid[k].to
         /\ k < Len(laid) => laid[k].how \in {"done", "clipped"}
         /\ \A i \in (laid[k].from + 1)..
                     (IF k = Len(laid) THEN Len(drawn) ELSE laid[k].to) :
              /\ FLe(TopOf(k), drawn[i].y)
              /\ FLe(FAdd(drawn[i].y, LineHeightOf(k)), BottomOf(k))
              /\ i = laid[k].from + 1 /\ respect_line_breaks =>
                   drawn[i].y = TopOf(k)
    /\ response.body = "image" =>
         /\ Len(laid) = Len(request.blocks)
         /\ \A k \in 1..Len(laid) : laid[k].how \in {"done", "clipped"}

\* ... and the cursor of a block starts at the top of its own box; a block
\* that overflowed hands over to the next block, its lines staying.
C16_BlocksIndependent ==
  /\ []C16_BlocksLaidInOrder
  /\ [][/\ (pc = "enter" /\ pc' # "enter") => cursor_y' = TopOf(block_no)
        /\ pc = "clipped" =>
             /\ pc' = "next_block"
             /\ block_no' = block_no + 1
             /\ drawn' = drawn /\ canvas' = canvas
             /\ response' = response]_vars

\* C16 witness: the first block overflowed after a line, the second one, in
\* another box, drew its lines, and the image was answered.
C16_Witness ==
  /\ pc = "responded"
  /\ response = ImageResponse
  /\ Len(laid) = 2
  /\ laid[1].how = "clipped" /\ laid[1].to = 1
  /\ laid[2].how = "done" /\ laid[2].to = 3
  /\ TopOf(1) # TopOf(2)

\* C17 as stated: a request whose width, height or font size (the size of a
\* preview, the fontSize of any block of a layout) is not positive draws
\* nothing and answers an error.
C17_RejectedBeforeDrawing ==
  LET bad == \/ request.width <= 0
             \/ request.height <= 0
             \/ IsPreview /\ request.size <= 0
             \/ IsLayout /\ \E k \in 1..Len(request.blocks) :
                               request.blocks[k].style.fontSize <= 0
  IN  bad =>
        /\ drawn = <<>>
        /\ canvas = <<>>
        /\ pc = "responded" => response.body = "error"

\* C18: the font saved again is tried only after the direct load failed, and
\* once; when it fails too the request answers an error and no image, also
\* when blocks were drawn before; an image is answered only when every load
\* ended well.
C18_FontLoadFailure ==
  /\ \A i \in 1..Len(loads) :
       /\ loads[i].kind = "fallback" =>
            i > 1 /\ loads[i - 1].kind = "direct" /\ ~loads[i - 1].ok
       /\ (loads[i].kind = "fallback" /\ ~loads[i].ok) =>
            pc = "responded" /\ response = Error(400)
       /\ (~loads[i].ok /\ response.body = "image") =>
            /\ loads[i].kind = "direct"
            /\ i < Len(loads)
            /\ loads[i + 1].kind = "fallback" /\ loads[i + 1].ok
  /\ response.status \in {0, 200, 400, 404, 500}
  /\ response.body = "image" <=> response.status = 200

\* C18 witness: a block was drawn, the font of the next block failed to load
\* twice, and the layout request answered an error.
C18_Witness ==
  /\ IsLayout
  /\ pc = "responded"
  /\ response = Error(400)
  /\ canvas # <<>>
  /\ Len(loads) >= 3
  /\ loads[Len(loads)] = [kind |-> "fallback", ok |-> FALSE]

IsPreviewText(o) == o.op = "multiline_text"

\* C19 as stated: the text of a preview lies at least padding pixels from
\* the left, top, right and bottom edges, whatever its size.
C19_PaddingEveryEdge ==
  IsPreview =>
    \A i \in 1..Len(canvas) :
      LET o == canvas[i]
      IN  /\ o.x >= request.padding
          /\ o.y >= request.padding
          /\ request.width - (o.x + o.width) >= request.padding
          /\ request.height - (o.y + o.height) >= request.padding

\* C19 amended: the origin is max(padding, floor((size - extent) / 2)) on
\* both axes, so the text lies at least padding pixels from the left and top
\* edges, and from the right (bottom) edge exactly when
\* extent + 2 * padding <= width (height).
C19_PaddingLeftTop ==
  IsPreview =>
    \A i \in 1..Len(canvas) :
      LET o   == canvas[i]
          pad == request.padding
      IN  /\ o.x >= pad
          /\ o.y >= pad
          /\ o.x = pad \/ (2 * o.x <= request.width - o.width
                           /\ request.width - o.width <= 2 * o.x + 1)
          /\ o.y = pad \/ (2 * o.y <= request.height - o.height
                           /\ request.height - o.height <= 2 * o.y + 1)
          /\ request.width - (o.x + o.width) >= pad
               <=> o.width + 2 * pad <= request.width
          /\ request.height - (o.y + o.height) >= pad
               <=> o.height + 2 * pad <= request.height

\* C19 witness: a text wider than the canvas less the paddings was drawn at
\* the padding and ends beyond the right edge, while vertically it is
\* centred with room to spare.
C19_Witness ==
  /\ IsPreview
  /\ pc = "responded"
  /\ \E i \in 1..Len(canvas) :
       /\ canvas[i].x = request.padding
       /\ canvas[i].x + canvas[i].width > request.width
       /\ canvas[i].y > request.padding
       /\ request.padding > 0

\* C20 as stated: the canvas of a preview has the requested background, and
\* is transparent only for a png request naming no background.
C20_PreviewBackground ==
  (IsPreview /\ image.width > 0) =>
    image.fill = IF lower(request.format) = "png" /\ ~request.background_given
                 THEN "transparent"
                 ELSE request.background

\* ------------------------------------------------------------------------
\* resolve_font_path
\* ------------------------------------------------------------------------
\* A path string is a sequence of characters, a resolved Path the sequence
\* of its parts below the root.  The font directory is /d/f; /d/fx is a
\* directory beside it whose name starts with the same characters.  There
\* are no symbolic links.
MaxParts == 3   \* file names of up to MaxParts parts

FontDirParts == << <<"d">>, <<"f">> >>

PartNames ==
  {<<".", ".">>, <<".">>, <<"d">>, <<"f">>, <<"f", "x">>,
   <<"a", ".", "t", "t", "f">>, <<"a", ".", "T", "T", "F">>,
   <<".", "_", "a", ".", "t", "t", "f">>, <<"a", ".", "t", "x", "t">>}

\* What exists on the disk: the directories, and the same files in the font
\* directory, beside it and above it
FileNamesOnDisk ==
  {<<"a", ".", "t", "t", "f">>, <<"a", ".", "T", "T", "F">>,
   <<".", "_", "a", ".", "t", "t", "f">>, <<"a", ".", "t", "x", "t">>}

Directories == {<<>>, << <<"d">> >>, FontDirParts, << <<"d">>, <<"f", "x">> >>}

Existing == Directories \cup {Append(dir, f) : dir \in Directories, f \in FileNamesOnDisk}

\* FONT_EXTENSIONS (".otf", ".ttc", ".woff" and ".woff2" behave as ".ttf")
FONT_EXTENSIONS == {<<".", "t", "t", "f">>}

\* "/".join(parts), after a "/" when absolute
RECURSIVE JoinSlash(_)
JoinSlash(parts) ==
  IF parts = <<>> THEN <<>>
  ELSE IF Len(parts) = 1 THEN parts[1]
  ELSE parts[1] \o <<"/">> \o JoinSlash(Tail(parts))

\* The file names a request can carry
FileNames ==
  {(IF abs THEN <<"/">> ELSE <<>>) \o JoinSlash(parts) :
     abs \in BOOLEAN, parts \in SeqsUpTo(PartNames, MaxParts)}

\* str.startswith
startswith(s, prefix) ==
  Len(s) >= Len(prefix) /\ SubSeq(s, 1, Len(prefix)) = prefix

\* The parts of a path string: what lies between its slashes, "" and "."
\* left out
RECURSIVE PartsAt(_, _, _, _)
PartsAt(s, i, parts, cur) ==
  LET close == IF cur = <<>> \/ cur = <<".">> THEN parts ELSE Append(parts, cur)
  IN  IF i > Len(s) THEN close
      ELSE IF s[i] = "/" THEN PartsAt(s, i + 1, close, <<>>)
      ELSE PartsAt(s, i + 1, parts, Append(cur, s[i]))

PathParts(s) == PartsAt(s, 1, <<>>, <<>>)

\* Path.resolve(): ".." leaves the directory reached, the root stays
RECURSIVE ResolveParts(_, _)
ResolveParts(parts, stack) ==
  IF parts = <<>> THEN stack
  ELSE IF parts[1] = <<".", ".">>
       THEN ResolveParts(Tail(parts),
                         IF stack = <<>> THEN <<>>
                         ELSE SubSeq(stack, 1, Len(stack) - 1))
       ELSE ResolveParts(Tail(parts), Append(stack, parts[1]))

\* (DEFAULT_FONT_DIR / file_name).resolve(): an absolute name replaces the
\* directory
JoinResolve(name) ==
  ResolveParts((IF startswith(name, <<"/">>) THEN <<>> ELSE FontDirParts)
                 \o PathParts(name), <<>>)

\* str(path)
PathStr(parts) == <<"/">> \o JoinSlash(parts)

\* str.lower() of a character
LowerChar(c) == IF c = "T" THEN "t" ELSE IF c = "F" THEN "f" ELSE c

\* Path.suffix.lower(): the name from its last dot on, none for a leading
\* or a closing dot
SuffixLower(parts) ==
  IF parts = <<>> THEN <<>>
  ELSE LET name == parts[Len(parts)]
           dots == {i \in 1..Len(name) : name[i] = "."}
           last == CHOOSE i \in dots : \A j \in dots : j <= i
       IN  IF dots = {} \/ last = 1 \/ last = Len(name) THEN <<>>
           ELSE [k \in 1..(Len(name) - last + 1) |-> LowerChar(name[last + k - 1])]

Rejected(status, detail) == [status |-> status, detail |-> detail, path |-> <<>>]

\* resolve_font_path
resolve_font_path(name) ==
  IF startswith(name, <<".", "_">>)
  THEN Rejected(400, "Unsupported font file.")
  ELSE LET candidate == JoinResolve(name)
       IN  IF ~startswith(PathStr(candidate), PathStr(FontDirParts))
           THEN Rejected(400, "Invalid font path.")
           ELSE IF ~(candidate \in Existing)
                   \/ SuffixLower(candidate) \notin FONT_EXTENSIONS
           THEN Rejected(404, "Font not found.")
           ELSE [status |-> 200, detail |-> "", path |-> candidate]

\* Neither wrap_text_lines nor a render request is running
NoRender ==
  /\ font = PropFont
  /\ text = <<>> /\ max_width = FZero /\ result = <<>>
  /\ NoLayout

InitResolve ==
  /\ pc = "resolve"
  /\ file_name \in FileNames
  /\ resolved = [status |-> 0, detail |-> "", path |-> <<>>]
  /\ NoRender
  /\ NoAuth
  /\ NoTasks

CallResolve ==
  /\ pc = "resolve"
  /\ resolved' = resolve_font_path(file_name)
  /\ pc' = "resolved"
  /\ UNCHANGED <<file_name, font, wrapVars, layoutVars, canvas, requestVars>>
  /\ UNCHANGED <<authVars, taskVars>>

NextResolve == CallResolve

SpecResolve == InitResolve /\ [][NextResolve]_vars

\* A path lies inside the font directory
InsideFontDir(parts) ==
  /\ Len(parts) > Len(FontDirParts)
  /\ SubSeq(parts, 1, Len(FontDirParts)) = FontDirParts

\* C21 as stated: a path resolve_font_path returns lies inside the font
\* directory; every name resolving outside it is rejected.
C21_ReturnsInsideFontDir ==
  (pc = "resolved" /\ resolved.status = 200) => InsideFontDir(resolved.path)

\* ------------------------------------------------------------------------
\* draw_layout_text on boxes of any size, run to its end
\* ------------------------------------------------------------------------
\* Paragraphs: empty, of whitespace only, of two words, of one word
EdgeParas ==
  {<<>>, <<" ">>, <<"a", " ", "b">>, <<"b", "a", "b">>}

EdgeTexts ==
  EdgeParas \cup {JoinNewline(<<p1, p2>>) : p1 \in EdgeParas, p2 \in EdgeParas}

\* Boxes of negative, zero, small and large width and height
EdgeBlocks ==
  {[text  |-> t,
    box   |-> [x |-> FromRatio(1, 10), y |-> FromRatio(1, 10),
               width |-> bw, height |-> bh],
    style |-> [fontSize |-> fs, fontWeight |-> 600, fontStyle |-> "normal",
               textDecoration |-> "none", textAlign |-> "left"]] :
     t \in EdgeTexts,
     bw \in {FromRatio(-1, 10), FZero, FromRatio(2, 10), FromRatio(8, 10)},
     bh \in {FromRatio(-1, 100), FZero, FromRatio(2, 100), FromRatio(1, 10)},
     fs \in {1, 12}}

InitEdge ==
  /\ pc = "enter"
  /\ font = PropFont
  /\ image \in Images
  /\ block \in EdgeBlocks
  /\ respect_line_breaks \in BOOLEAN
  /\ line_height = FZero /\ x = FZero /\ y = FZero /\ w = FZero /\ h = FZero
  /\ align = "" /\ paragraphs = <<>>
  /\ cursor_y = FZero /\ idx = 0 /\ lines = <<>> /\ line_no = 0 /\ drawn = <<>>
  /\ canvas = <<>>
  /\ text = <<>> /\ max_width = FZero /\ result = <<>>
  /\ NoRequest
  /\ NoService

\* The call runs without suspension: a step that can be taken is taken.
\* This is weak fairness of NextLayout, []<>~ENABLED <<NextLayout>>_vars \/
\* []<><<NextLayout>>_vars, written out with Finished for the first
\* disjunct's ~ENABLED: by the guards of the actions a step is possible in
\* every state but those after the return.
SpecLayoutFair ==
  /\ InitEdge
  /\ [][NextLayout]_vars
  /\ ([]<>Finished \/ []<><<NextLayout>>_vars)

\* The line of the running loop, 0 between two paragraphs
Inner == IF pc \in {"rlb_loop", "line_loop"} THEN line_no ELSE 0

\* s is t or t with one more element
GrewFrom(s, t) ==
  /\ Len(s) >= Len(t)
  /\ SubSeq(s, 1, Len(t)) = t

\* C22: draw_layout_text ends, for every box and text; each of its steps
\* either ends it or moves on to a later line or paragraph, never back, the
\* indices staying within the paragraphs and lines; what was drawn stays.
C22_ForwardPass ==
  /\ <>Finished
  /\ [](idx <= Len(paragraphs) + 1 /\ line_no <= Len(lines) + 1)
  /\ [][/\ GrewFrom(drawn', drawn)
        /\ GrewFrom(canvas', canvas)
        /\ \/ pc' \in {"done", "clipped"}
           \/ idx' > idx
           \/ idx' = idx /\ Inner' > Inner]_vars

\* C22 witness: in a box of negative width every character became a line
\* of its own, and the call ended after drawing them.
C22_Witness ==
  /\ pc = "done"
  /\ FGt(FZero, w)
  /\ ~respect_line_breaks
  /\ Len(drawn) >= 3

\* C25 as stated: in wrap mode every paragraph, one of whitespace only
\* included, is wrapped into at least one line.
C25_AtLeastOneLine ==
  (pc = "line_loop" /\ ~respect_line_breaks) => Len(lines) >= 1

\* C25, amended: a paragraph is wrapped into at least one line exactly when
\* it is empty or holds a character that is not whitespace.  If its first
\* line still fits, that line is drawn and the cursor advances by
\* line_height; a paragraph of whitespace only has no line, draws nothing
\* and advances the cursor by the paragraph gap at most.
C25_LinesUnlessWhitespaceOnly ==
  /\ []((pc = "line_loop" /\ ~respect_line_breaks) =>
          (lines # <<>> <=> (paragraphs[idx] = <<>>
                             \/ DropWhitespace(paragraphs[idx]) # <<>>)))
  /\ [][(pc = "line_loop" /\ line_no = 1) =>
          IF lines = <<>>
          THEN /\ drawn' = drawn
               /\ cursor_y' \in {cursor_y,
                                 FAdd(cursor_y, FMul(line_height, FromRatio(2, 10)))}
          ELSE \/ Overflows /\ pc' = "clipped"
               \/ /\ ~Overflows
                  /\ Len(drawn') = Len(drawn) + 1
                  /\ cursor_y' = FAdd(cursor_y, line_height)]_vars

\* C25 witness: after a drawn paragraph, a paragraph of whitespace only that
\* would still fit was wrapped into no line.
C25_Witness ==
  /\ pc = "line_loop" /\ ~respect_line_breaks
  /\ paragraphs[idx] # <<>>
  /\ lines = <<>>
  /\ ~Overflows
  /\ Len(drawn) >= 1

\* ------------------------------------------------------------------------
\* /auth/register, /auth/login, /auth/refresh, /auth/logout
\* ------------------------------------------------------------------------
MaxUsers  == 2    \* users created
MaxTokens == 4    \* refresh tokens created

\* payload.username and payload.password as sent
PayloadNames     == {<<" ">>, <<"a">>, <<"a", " ">>, <<"b">>}
PayloadPasswords == {<<>>, <<"p">>, <<"q">>}

\* The cookie sent: none (0), a token created so far, or a made-up value
Cookies == 0..(MaxTokens + 1)

\* password_hasher.hash and password_hasher.verify
PasswordHash(password) == <<"$">> \o password

Verifies(password_hash, password) == password_hash = PasswordHash(password)

hash_refresh_token(token) == <<"sha256", token>>

\* Everything but the state of the auth handlers
notAuth == <<pc, font, wrapVars, layoutVars, canvas, requestVars, resolveVars, taskVars>>

\* SELECT * FROM users WHERE username = ?  (0: no row)
get_user_by_username(username) ==
  IF \E i \in 1..Len(users) : users[i].username = username
  THEN CHOOSE i \in 1..Len(users) : users[i].username = username
  ELSE 0

\* SELECT * FROM users WHERE id = ?  (0: no row)
get_user_by_id(user_id) == IF user_id \in 1..Len(users) THEN user_id ELSE 0

\* SELECT * FROM refresh_tokens WHERE token_hash = ?  (0: no row)
get_refresh_token_record(token_hash) ==
  IF \E i \in 1..Len(refresh_tokens) : refresh_tokens[i].token_hash = token_hash
  THEN CHOOSE i \in 1..Len(refresh_tokens) : refresh_tokens[i].token_hash = token_hash
  ELSE 0

\* datetime.now(timezone.utc) >= expires_at, for the row of a token
Expired(row) == row <= clock

\* Mutant of revoke_refresh_tokens_for_user: only the oldest token of the
\* user is revoked
revoke_refresh_tokens_for_user_Oldest(user_id) ==
  [i \in 1..Len(refresh_tokens) |->
     IF /\ refresh_tokens[i].user_id = user_id
        /\ \A j \in 1..(i - 1) : refresh_tokens[j].user_id # user_id
     THEN [refresh_tokens[i] EXCEPT !.revoked = TRUE]
     ELSE refresh_tokens[i]]

\* UPDATE refresh_tokens SET revoked_at = ? WHERE user_id = ? AND revoked_at IS NULL
revoke_refresh_tokens_for_user(user_id) ==
  [i \in 1..Len(refresh_tokens) |->
     IF refresh_tokens[i].user_id = user_id
     THEN [refresh_tokens[i] EXCEPT !.revoked = TRUE]
     ELSE refresh_tokens[i]]

\* The token secrets.token_urlsafe(64) gives: one never given before
NewToken == Len(refresh_tokens) + 1

\* INSERT INTO refresh_tokens ...
create_refresh_token_record(user_id) ==
  Append(refresh_tokens,
         [user_id |-> user_id, token_hash |-> hash_refresh_token(NewToken),
          revoked |-> FALSE])

\* The requests that will insert a token and have not done it yet
Inserting ==
  {s \in Slots : /\ reqs[s].pc \notin {"idle", "done"}
                 /\ reqs[s].op \in {"register", "login", "refresh"}}

\* The handler of slot s answers
Answer(s, status, detail) ==
  reqs' = [reqs EXCEPT ![s].pc = "done", ![s].status = status, ![s].detail = detail]

Goto(s, to, user_id) ==
  reqs' = [reqs EXCEPT ![s].pc = to, ![s].user_id = user_id]

\* A request arrives
Begin(s, op, username, password, cookie) ==
  /\ reqs[s].pc \in {"idle", "done"}
  /\ Len(refresh_tokens) + Cardinality(Inserting) < MaxTokens
  /\ reqs' = [reqs EXCEPT ![s] =
                [Idle EXCEPT !.op = op, !.pc = "enter", !.username = username,
                             !.password = password, !.cookie = cookie]]
  /\ UNCHANGED <<users, refresh_tokens, clock, accepted, notAuth>>

\* register and login: the payload is stripped and must not be blank
BlankPayload(s) ==
  /\ reqs[s].pc = "enter"
  /\ reqs[s].op \in {"register", "login"}
  /\ strip(reqs[s].username) = <<>> \/ strip(reqs[s].password) = <<>>
  /\ Answer(s, 400, "Username and password are required")
  /\ UNCHANGED <<users, refresh_tokens, clock, accepted, notAuth>>

\* register: if get_user_by_username(username): 409
RegisterCheck(s) ==
  /\ reqs[s].pc = "enter"
  /\ reqs[s].op = "register"
  /\ strip(reqs[s].username) # <<>> /\ strip(reqs[s].password) # <<>>
  /\ IF get_user_by_username(strip(reqs[s].username)) # 0
     THEN Answer(s, 409, "Username already exists")
     ELSE Goto(s, "create", 0)
  /\ UNCHANGED <<users, refresh_tokens, clock, accepted, notAuth>>

\* register: create_user(username, password)
RegisterCreate(s) ==
  /\ reqs[s].pc = "create"
  /\ Len(users) < MaxUsers
  /\ users' = Append(users, [username      |-> strip(reqs[s].username),
                             password_hash |-> PasswordHash(strip(reqs[s].password)),
                             last_login_at |-> "created"])
  /\ Goto(s, "revoke", Len(users) + 1)
  /\ UNCHANGED <<refresh_tokens, clock, accepted, notAuth>>

\* login: the user and the password are checked
LoginCheck(s) ==
  /\ reqs[s].pc = "enter"
  /\ reqs[s].op = "login"
  /\ strip(reqs[s].username) # <<>> /\ strip(reqs[s].password) # <<>>
  /\ LET user == get_user_by_username(strip(reqs[s].username))
     IN  IF user = 0
         THEN Answer(s, 401, "Invalid username or password")
         ELSE IF ~Verifies(users[user].password_hash, strip(reqs[s].password))
         THEN Answer(s, 401, "Invalid username or password")
         ELSE Goto(s, "update", user)
  /\ UNCHANGED <<users, refresh_tokens, clock, accepted, notAuth>>

\* login: update_last_login(user["id"])
LoginUpdate(s) ==
  /\ reqs[s].pc = "update"
  /\ users' = [users EXCEPT ![reqs[s].user_id].last_login_at = "login"]
  /\ Goto(s, "revoke", reqs[s].user_id)
  /\ UNCHANGED <<refresh_tokens, clock, accepted, notAuth>>

\* refresh: the cookie, its record and the user of the record are checked
RefreshLookup(s) ==
  /\ reqs[s].pc = "enter"
  /\ reqs[s].op = "refresh"
  /\ LET record == get_refresh_token_record(hash_refresh_token(reqs[s].cookie))
     IN  IF reqs[s].cookie = 0 THEN Answer(s, 401, "Missing refresh token")
         ELSE IF record = 0 THEN Answer(s, 401, "Invalid refresh token")
         ELSE IF refresh_tokens[record].revoked
         THEN Answer(s, 401, "Refresh token revoked")
         ELSE IF Expired(record) THEN Answer(s, 401, "Refresh token expired")
         ELSE IF get_user_by_id(refresh_tokens[record].user_id) = 0
         THEN Answer(s, 401, "User not found")
         ELSE Goto(s, "revoke", refresh_tokens[record].user_id)
  /\ UNCHANGED <<users, refresh_tokens, clock, accepted, notAuth>>

\* logout: the record of the cookie, if there is one
LogoutLookup(s) ==
  /\ reqs[s].pc = "enter"
  /\ reqs[s].op = "logout"
  /\ LET record == get_refresh_token_record(hash_refresh_token(reqs[s].cookie))
     IN  IF reqs[s].cookie = 0 \/ record = 0
         THEN Answer(s, 200, "success")
         ELSE Goto(s, "revoke", refresh_tokens[record].user_id)
  /\ UNCHANGED <<users, refresh_tokens, clock, accepted, notAuth>>

\* revoke_refresh_tokens_for_user(user["id"]), the last step of logout
Revoke(s) ==
  /\ reqs[s].pc = "revoke"
  /\ refresh_tokens' = revoke_refresh_tokens_for_user(reqs[s].user_id)
  /\ IF reqs[s].op = "logout"
     THEN Answer(s, 200, "success")
     ELSE Goto(s, "insert", reqs[s].user_id)
  /\ UNCHANGED <<users, clock, accepted, notAuth>>

\* create_refresh_token_record(...), the answer with the new cookie
Insert(s) ==
  /\ reqs[s].pc = "insert"
  /\ refresh_tokens' = create_refresh_token_record(reqs[s].user_id)
  /\ reqs' = [reqs EXCEPT ![s].pc = "done", ![s].status = 200,
                          ![s].detail = "accessToken", ![s].set_cookie = NewToken]
  /\ accepted' = IF reqs[s].op = "refresh"
                 THEN Append(accepted, reqs[s].cookie) ELSE accepted
  /\ UNCHANGED <<users, clock, notAuth>>

\* Time passes: the oldest token that has not expired expires
Tick ==
  /\ clock < Len(refresh_tokens)
  /\ clock' = clock + 1
  /\ UNCHANGED <<users, refresh_tokens, reqs, accepted, notAuth>>

\* One step of the handler serving slot s
Serve(s) ==
  \/ BlankPayload(s) \/ RegisterCheck(s) \/ RegisterCreate(s)
  \/ LoginCheck(s) \/ LoginUpdate(s)
  \/ RefreshLookup(s) \/ LogoutLookup(s)
  \/ Revoke(s) \/ Insert(s)

\* No request is being served
Quiet == \A s \in Slots : reqs[s].pc \in {"idle", "done"}

\* A request arrives while none is being served
BeginAlone ==
  /\ Quiet
  /\ \/ \E u \in PayloadNames, p \in PayloadPasswords :
          /\ Len(users) < MaxUsers
          /\ Begin(1, "register", u, p, 0)
     \/ \E u \in PayloadNames, p \in PayloadPasswords : Begin(1, "login", u, p, 0)
     \/ \E c \in Cookies : Begin(1, "refresh", <<>>, <<>>, c)
     \/ \E c \in Cookies : Begin(1, "logout", <<>>, <<>>, c)

InitAuth ==
  /\ pc = "auth"
  /\ file_name = <<>>
  /\ resolved = [status |-> 0, detail |-> "", path |-> <<>>]
  /\ NoRender
  /\ NoAuth
  /\ NoTasks

NextAuth == BeginAlone \/ Serve(1) \/ Tick

\* The requests are served one at a time
SpecAuth == InitAuth /\ [][NextAuth]_vars

\* The tokens of a user that are not revoked
Unrevoked(user_id) ==
  {i \in 1..Len(refresh_tokens) :
     refresh_tokens[i].user_id = user_id /\ ~refresh_tokens[i].revoked}

Times(seq, v) == Cardinality({i \in 1..Len(seq) : seq[i] = v})

\* C26: with the requests served one at a time, whenever none is being
\* served each user has at most one token that is not revoked and no token
\* was accepted by /auth/refresh twice.  A refresh, login or logout of a
\* user that succeeded leaves no token of that user unrevoked but the one it
\* issued; a revoked token stays revoked; and /auth/refresh goes on only
\* with a token that is not revoked (else it answers 401).
C26_OneLiveTokenAcceptedOnce ==
  /\ [](Quiet =>
         /\ \A u \in 1..Len(users) : Cardinality(Unrevoked(u)) <= 1
         /\ \A t \in 1..Len(refresh_tokens) : Times(accepted, t) <= 1)
  /\ []((reqs[1].pc = "done" /\ reqs[1].status = 200 /\ reqs[1].user_id # 0) =>
          Unrevoked(reqs[1].user_id) \subseteq {reqs[1].set_cookie})
  /\ []((reqs[1].op = "refresh" /\ reqs[1].pc = "revoke") =>
          reqs[1].cookie \in Unrevoked(reqs[1].user_id))
  /\ []((reqs[1].op = "refresh" /\ reqs[1].pc = "done" /\ reqs[1].set_cookie = 0) =>
          reqs[1].status = 401)
  /\ [][\A i \in 1..Len(refresh_tokens) :
          refresh_tokens[i].revoked => refresh_tokens'[i].revoked]_vars

\* C26 witness: a token that /auth/refresh had accepted was presented again
\* and refused as revoked, its user holding the one token issued instead.
C26_Witness ==
  /\ reqs[1].pc = "done" /\ reqs[1].op = "refresh"
  /\ reqs[1].status = 401 /\ reqs[1].detail = "Refresh token revoked"
  /\ Times(accepted, reqs[1].cookie) = 1
  /\ \E u \in 1..Len(users) : Cardinality(Unrevoked(u)) = 1

\* ------------------------------------------------------------------------
\* Two /auth/refresh requests at once
\* ------------------------------------------------------------------------
\* The token of a cookie is one /auth/refresh accepts now
Valid(cookie) ==
  /\ cookie \in 1..Len(refresh_tokens)
  /\ ~refresh_tokens[cookie].revoked
  /\ ~Expired(cookie)

\* While a refresh is being served (each handler runs on a thread of its
\* own, each database call commits by itself), a second refresh arrives
\* with the same cookie, the token still being valid
Join ==
  /\ reqs[1].op = "refresh"
  /\ reqs[1].pc \notin {"idle", "done"}
  /\ Valid(reqs[1].cookie)
  /\ Begin(2, "refresh", <<>>, <<>>, reqs[1].cookie)

NextRace == BeginAlone \/ Join \/ Serve(1) \/ Serve(2) \/ Tick

SpecRace == InitAuth /\ [][NextRace]_vars

\* C27 as stated: of two /auth/refresh requests served at once with the same
\* valid token at most one is answered 200, and when both are answered the
\* user has at most one token that is not revoked.
C27_AtMostOneRefreshSucceeds ==
  (/\ reqs[1].pc = "done" /\ reqs[1].op = "refresh"
   /\ reqs[2].pc = "done" /\ reqs[2].op = "refresh"
   /\ reqs[1].cookie = reqs[2].cookie) =>
    /\ ~(reqs[1].status = 200 /\ reqs[2].status = 200)
    /\ \A u \in 1..Len(users) : Cardinality(Unrevoked(u)) <= 1

\* ------------------------------------------------------------------------
\* /ai/chat, /ai/task/submit and the worker execute_ai_task
\* ------------------------------------------------------------------------
MaxTasks == 2    \* tasks submitted

attempts == 2

\* What httpx.post does: a response (with a JSON body or not), a read
\* timeout, another httpx.RequestError
Outcomes ==
  {[kind |-> "response", status_code |-> 200, json |-> TRUE],
   [kind |-> "response", status_code |-> 200, json |-> FALSE],
   [kind |-> "response", status_code |-> 502, json |-> TRUE],
   [kind |-> "ReadTimeout", status_code |-> 0, json |-> FALSE],
   [kind |-> "ConnectError", status_code |-> 0, json |-> FALSE]}

\* Everything but the state of the AI handlers
notTasks == <<pc, font, wrapVars, layoutVars, canvas, requestVars, resolveVars, authVars>>

\* Mutant of Post: every request error is tried again
Post_RetryAny(call, outcome) ==
  IF outcome.kind = "response"
  THEN [call EXCEPT !.sent = Append(call.sent, outcome), !.last_exc = "None",
                    !.response = outcome, !.pc = "after"]
  ELSE [call EXCEPT !.sent = Append(call.sent, outcome),
                    !.last_exc = outcome.kind,
                    !.pc = IF Len(call.sent) + 1 < attempts THEN "post" ELSE "after"]

\* One pass of `for attempt in range(1, attempts + 1)`: the request and what
\* comes of it
Post(call, outcome) ==
  IF outcome.kind = "response"
  THEN [call EXCEPT !.sent = Append(call.sent, outcome), !.last_exc = "None",
                    !.response = outcome, !.pc = "after"]
  ELSE IF outcome.kind = "ReadTimeout"
  THEN [call EXCEPT !.sent = Append(call.sent, outcome),
                    !.last_exc = "ReadTimeout",
                    !.pc = IF Len(call.sent) + 1 < attempts THEN "post" ELSE "after"]
  ELSE [call EXCEPT !.sent = Append(call.sent, outcome),
                    !.last_exc = outcome.kind, !.pc = "after"]

\* response.json(), or {"error": response.text}
Data(r) == IF r.json THEN "json" ELSE "error: text"

\* ai_chat is called
ChatBegin ==
  /\ chat.pc \in {"idle", "done"}
  /\ chat' = [NoCall EXCEPT !.pc = "enter"]
  /\ UNCHANGED <<POLO_API_KEY, ai_tasks, runs, notTasks>>

\* ai_chat: if not POLO_API_KEY: 500
ChatKey ==
  /\ chat.pc = "enter"
  /\ chat' = IF POLO_API_KEY = ""
             THEN [chat EXCEPT !.pc = "done", !.status = 500,
                               !.detail = "POLO_API_KEY not configured on server"]
             ELSE [chat EXCEPT !.pc = "post"]
  /\ UNCHANGED <<POLO_API_KEY, ai_tasks, runs, notTasks>>

\* ai_chat: one upstream request
ChatPost ==
  /\ chat.pc = "post"
  /\ \E outcome \in Outcomes : chat' = Post(chat, outcome)
  /\ UNCHANGED <<POLO_API_KEY, ai_tasks, runs, notTasks>>

\* ai_chat: after the loop
ChatAnswer ==
  /\ chat.pc = "after"
  /\ chat' = IF chat.last_exc # "None"
             THEN [chat EXCEPT !.pc = "done", !.status = 502,
                               !.detail = "Polo API request failed"]
             ELSE [chat EXCEPT !.pc = "done",
                               !.status = chat.response.status_code,
                               !.detail = Data(chat.response)]
  /\ UNCHANGED <<POLO_API_KEY, ai_tasks, runs, notTasks>>

Queued == [pc |-> "queued", sent |-> <<>>, last_exc |-> "None", response |-> NoResponse]

\* submit_ai_task: the row, the worker handed to the thread pool
Submit ==
  /\ Len(ai_tasks) < MaxTasks
  /\ ai_tasks' = Append(ai_tasks, [status |-> "pending", payload |-> "json",
                                   result |-> "None", error |-> "None"])
  /\ runs' = Append(runs, Queued)
  /\ UNCHANGED <<POLO_API_KEY, chat, notTasks>>

\* admin_db_update on the payload of a task that waits for its worker
AdminUpdatePayload(t) ==
  /\ t \in 1..Len(ai_tasks)
  /\ ai_tasks[t].status = "pending"
  /\ ai_tasks[t].payload = "json"
  /\ ai_tasks' = [ai_tasks EXCEPT ![t].payload = "not json"]
  /\ UNCHANGED <<POLO_API_KEY, runs, chat, notTasks>>

\* Mutant of RunStart: the worker leaves the status alone
RunStart_NoRunning(t) ==
  /\ t \in 1..Len(ai_tasks)
  /\ runs[t].pc = "queued"
  /\ runs' = [runs EXCEPT ![t].pc = "parse"]
  /\ UNCHANGED <<ai_tasks, POLO_API_KEY, chat, notTasks>>

\* execute_ai_task: the task is read and set to running
RunStart(t) ==
  /\ t \in 1..Len(ai_tasks)
  /\ runs[t].pc = "queued"
  /\ ai_tasks' = [ai_tasks EXCEPT ![t].status = "running"]
  /\ runs' = [runs EXCEPT ![t].pc = "parse"]
  /\ UNCHANGED <<POLO_API_KEY, chat, notTasks>>

\* Mutant of Failed: the exception is swallowed, the row left as it is
Failed_Swallow(t, message) == ai_tasks

\* except Exception as e: UPDATE ai_tasks SET status = 'error', error = ?
Failed(t, message) ==
  [ai_tasks EXCEPT ![t].status = "error", ![t].error = message]

\* execute_ai_task: json.loads(task["payload"]), the key
RunPrepare(t) ==
  /\ t \in 1..Len(ai_tasks)
  /\ runs[t].pc = "parse"
  /\ IF ai_tasks[t].payload # "json"
     THEN /\ ai_tasks' = Failed(t, "JSONDecodeError")
          /\ runs' = [runs EXCEPT ![t].pc = "done"]
     ELSE IF POLO_API_KEY = ""
     THEN /\ ai_tasks' = Failed(t, "POLO_API_KEY not configured on server")
          /\ runs' = [runs EXCEPT ![t].pc = "done"]
     ELSE /\ runs' = [runs EXCEPT ![t].pc = "post"]
          /\ UNCHANGED ai_tasks
  /\ UNCHANGED <<POLO_API_KEY, chat, notTasks>>

\* execute_ai_task: one upstream request
RunPost(t) ==
  /\ t \in 1..Len(ai_tasks)
  /\ runs[t].pc = "post"
  /\ \E outcome \in Outcomes : runs' = [runs EXCEPT ![t] = Post(runs[t], outcome)]
  /\ UNCHANGED <<ai_tasks, POLO_API_KEY, chat, notTasks>>

\* execute_ai_task: after the loop
RunFinish(t) ==
  /\ t \in 1..Len(ai_tasks)
  /\ runs[t].pc = "after"
  /\ ai_tasks' =
       IF runs[t].last_exc # "None" THEN Failed(t, "Polo API request failed")
       ELSE IF runs[t].response.status_code >= 400 THEN Failed(t, "Polo API error")
       ELSE [ai_tasks EXCEPT ![t].status = "completed",
                             ![t].result = Data(runs[t].response)]
  /\ runs' = [runs EXCEPT ![t].pc = "done"]
  /\ UNCHANGED <<POLO_API_KEY, chat, notTasks>>

\* One step of the worker of task t
Run(t) == RunStart(t) \/ RunPrepare(t) \/ RunPost(t) \/ RunFinish(t)

InitTask ==
  /\ pc = "ai"
  /\ file_name = <<>>
  /\ resolved = [status |-> 0, detail |-> "", path |-> <<>>]
  /\ NoRender
  /\ NoAuth
  /\ POLO_API_KEY \in {"", "key"}
  /\ ai_tasks = <<>>
  /\ runs = <<>>
  /\ chat = NoCall

NextTask ==
  \/ ChatBegin \/ ChatKey \/ ChatPost \/ ChatAnswer
  \/ Submit
  \/ \E t \in 1..MaxTasks : AdminUpdatePayload(t)
  \/ \E t \in 1..MaxTasks : Run(t)

SpecTask == InitTask /\ [][NextTask]_vars

\* The tasks and their workers alone (ai_chat shares no state with them)
NextWorkers ==
  \/ Submit
  \/ \E t \in 1..MaxTasks : AdminUpdatePayload(t)
  \/ \E t \in 1..MaxTasks : Run(t)

\* The thread pool runs every worker it was handed, and a worker that
\* runs goes on: each upstream call returns or raises
SpecTaskFair ==
  /\ InitTask
  /\ [][NextWorkers]_vars
  /\ \A t \in 1..MaxTasks : WF_vars(Run(t))

\* The change of the status of task t in a step
StatusStep(t) == <<ai_tasks[t].status, ai_tasks'[t].status>>

\* C28: a task is created pending; its status changes only from pending to
\* running and from running to completed or error, and never after that;
\* no upstream request is sent for a task that is still pending; a
\* completed task has a result and a task in error an error message.
C28_StatusLifecycle ==
  /\ [][/\ Len(ai_tasks') >= Len(ai_tasks)
        /\ \A t \in (Len(ai_tasks) + 1)..Len(ai_tasks') :
             ai_tasks'[t].status = "pending"
        /\ \A t \in 1..Len(ai_tasks) :
             \/ ai_tasks'[t].status = ai_tasks[t].status
             \/ StatusStep(t) \in {<<"pending", "running">>,
                                   <<"running", "completed">>,
                                   <<"running", "error">>}]_vars
  /\ [](\A t \in 1..Len(ai_tasks) :
          /\ ai_tasks[t].status = "pending" => runs[t].sent = <<>>
          /\ ai_tasks[t].status = "completed" => ai_tasks[t].result # "None"
          /\ ai_tasks[t].status = "error" =>
               ai_tasks[t].error \notin {"None", ""})

\* C28 witness: one task completed after a read timeout and a second
\* request, another ended in error.
C28_Witness ==
  /\ Len(ai_tasks) = 2
  /\ ai_tasks[1].status = "completed" /\ Len(runs[1].sent) = 2
  /\ ai_tasks[2].status = "error" /\ runs[2].pc = "done"

\* The run of task t met a failure
Failure(t) ==
  \/ POLO_API_KEY = ""
  \/ ai_tasks[t].payload # "json"
  \/ runs[t].last_exc # "None"
  \/ runs[t].response.status_code >= 400

\* C29: every task submitted reaches completed or error in the end, and a
\* run that met a failure (no key, a payload that does not parse, a request
\* error, an upstream status of 400 or more) ends in error.
C29_TaskSettles ==
  /\ \A t \in 1..MaxTasks :
       (Len(ai_tasks) >= t) ~> (/\ Len(ai_tasks) >= t
                                /\ ai_tasks[t].status \in {"completed", "error"})
  /\ [](\A t \in 1..Len(ai_tasks) :
          (runs[t].pc = "done" /\ Failure(t)) => ai_tasks[t].status = "error")

\* C29 witness: the key is configured, one run ended in error on a payload
\* that does not parse and the other on an upstream status of 400 or more.
C29_Witness ==
  /\ POLO_API_KEY # ""
  /\ Len(ai_tasks) = 2
  /\ runs[1].pc = "done" /\ ai_tasks[1].payload # "json"
  /\ runs[2].pc = "done" /\ runs[2].response.status_code >= 400
  /\ ai_tasks[1].status = "error" /\ ai_tasks[2].status = "error"

\* The last attempt of a call raised an error
Raised(call) ==
  /\ call.sent # <<>>
  /\ call.sent[Len(call.sent)].kind # "response"

\* At most `attempts` requests, the second only after a read timeout
RetryRule(call) ==
  /\ Len(call.sent) <= 2
  /\ Len(call.sent) = 2 => call.sent[1].kind = "ReadTimeout"

\* C30 as stated: at most 2 requests, the second only after a read timeout,
\* and the call fails (ai_chat answers 502, the task ends in error) exactly
\* when the last attempt made raised an error.
C30_FailsIffLastAttemptRaised ==
  /\ RetryRule(chat)
  /\ chat.pc = "done" => (chat.status = 502 <=> Raised(chat))
  /\ \A t \in 1..Len(ai_tasks) :
       /\ RetryRule(runs[t])
       /\ runs[t].pc = "done" =>
            (ai_tasks[t].status = "error" <=> Raised(runs[t]))

\* C30, amended: at most 2 requests, the second only after a read timeout;
\* the call fails with "Polo API request failed" (ai_chat as a 502, the task
\* as its error) exactly when the last attempt made raised an error.  A task
\* ends in error exactly when that happened or the key is missing, the
\* payload does not parse or the upstream status is 400 or more; ai_chat
\* answers 500 without a key and else hands on the upstream status.
C30_RetryOnReadTimeoutOnly ==
  /\ RetryRule(chat)
  /\ chat.pc = "done" =>
       /\ chat.detail = "Polo API request failed" <=> Raised(chat)
       /\ chat.detail = "Polo API request failed" => chat.status = 502
       /\ (chat.sent # <<>> /\ ~Raised(chat)) =>
            chat.status = chat.sent[Len(chat.sent)].status_code
       /\ chat.sent = <<>> => chat.status = 500
  /\ \A t \in 1..Len(ai_tasks) :
       /\ RetryRule(runs[t])
       /\ runs[t].pc = "done" =>
            /\ ai_tasks[t].error = "Polo API request failed" <=> Raised(runs[t])
            /\ ai_tasks[t].status = "error" <=> Failure(t)
            /\ ai_tasks[t].status = "completed" <=> ~Failure(t)

\* C30 witness: ai_chat answered 502 after two read timeouts, one task
\* ended in error after a single request error that was not retried, the
\* other completed on its second request.
C30_Witness ==
  /\ chat.pc = "done" /\ chat.status = 502 /\ Len(chat.sent) = 2
  /\ Len(ai_tasks) = 2
  /\ runs[1].pc = "done" /\ Len(runs[1].sent) = 1 /\ Raised(runs[1])
  /\ ai_tasks[1].status = "error"
  /\ runs[2].pc = "done" /\ Len(runs[2].sent) = 2
  /\ ai_tasks[2].status = "completed"

====
